---------------------------- MODULE Spec2Model ----------------------------
(***************************************************************************)
(* Control core of the ESP32 grout pump controller (src/src/main.cpp).     *)
(*                                                                         *)
(* One Tick step is one call of loop().  Time is kept as ages: for every   *)
(* timestamp T the program stores, the model stores millis() - T as it was *)
(* at the latest call of loop(), so that "millis() - T > D" reads          *)
(* "age > D".  Every age is advanced by the time dt that passed since the  *)
(* previous call and saturates at a cap above every threshold it is        *)
(* compared with.  An age whose timestamp the program overwrites before it *)
(* reads it again is held at its cap (see Settle).  loop() samples         *)
(* millis() and every input pin once per call.                             *)
(***************************************************************************)
EXTENDS Integers, Sequences, FiniteSets, TLC

VARIABLES
    currentMode,      \* SystemMode
    cycleDirection,   \* CycleDirection
    gpo1,             \* level of GPO1_PIN (retract / IN)
    gpo2,             \* level of GPO2_PIN (extend / OUT)
    isEstopActive,
    inputA, inputB, inputC, inputD,   \* ButtonState
    lastEndStopIn, lastEndStopOut,
    lastCycleAge,     \* millis() - lastCycleTime
    cycleStartAge,    \* millis() - cycleStartTime
    cycleTimeout, timeoutEnabled,
    flash,            \* the "groutpump" Preferences namespace
    stats,            \* cycleDurations, cycleIndex, cycleCount, lastDuration, avgDuration
    writes,           \* the digitalWrite calls of the latest step, <<pin, level>> each
    errorLine,        \* the ERROR line the latest step printed on Serial, if any
    ran,              \* what the latest step ran
    raw,              \* the signals on the INPUT_A and INPUT_C pins (SpecFine):
                      \* level, time since the level changed, and for
                      \* INPUT_C whether loop() has read the pin more than
                      \* DEBOUNCE_DELAY after the change
    http,             \* the latest /save request and its response
                      \* (SpecSettings, SpecSwitch)
    strokes,          \* the duration last passed to updateStats and the
                      \* durations it accepted, oldest first (SpecStats,
                      \* SpecStroke)
    update,           \* the firmware update in progress, if any (SpecNet)
    status,           \* the status broadcasts of the latest step and the time
                      \* since lastStatusUpdate and since the latest
                      \* broadcast (SpecStatus)
    edges,            \* for INPUT_A and INPUT_C, whether the latest call of
                      \* loop() raised the press edge and the time since the
                      \* latest press edge (SpecEdge)
    snapshot          \* the status snapshot being built outside loop():
                      \* how far getStatusJson has come and the output
                      \* levels it has read (SpecSnapshot)

vars == <<currentMode, cycleDirection, gpo1, gpo2, isEstopActive,
          inputA, inputB, inputC, inputD, lastEndStopIn, lastEndStopOut,
          lastCycleAge, cycleStartAge, cycleTimeout, timeoutEnabled, flash,
          stats, writes, errorLine, ran, raw, http, strokes, update, status,
          edges, snapshot>>

---------------------------------------------------------------------------
(* Levels, enumerations and program constants *)

HIGH == TRUE
LOW == FALSE

MODE_MANUAL == "MODE_MANUAL"
MODE_AUTO_LOOP == "MODE_AUTO_LOOP"

CYCLE_IN == "CYCLE_IN"
CYCLE_OUT == "CYCLE_OUT"
CYCLE_STOPPED == "CYCLE_STOPPED"

DEBOUNCE_DELAY == 50
CYCLE_DELAY == 500
DEFAULT_CYCLE_TIMEOUT == 30000
MIN_CYCLE_TIMEOUT == 1000
MAX_CYCLE_TIMEOUT == 300000
STATUS_UPDATE_INTERVAL == 1000
HISTORY_SIZE == 20
MIN_STROKE == 100

---------------------------------------------------------------------------
(* Bounds of the model *)

\* Strokes recorded into the statistics before recording steps are cut off.
MaxStrokes == 1

\* Command buttons (A to D) that read pressed in the same call of loop().
MaxHeld == 2

\* Strokes accepted into the statistics in SpecStats.
MaxRecorded == 22

\* Accepted strokes in SpecStats whose duration is not the shortest one.
MaxVaried == 2

\* Durations passed to updateStats in SpecStats, in milliseconds: one below
\* the noise floor, and three of a working stroke.
StrokeDurations == {99, 4000, 5000, 6000}

\* Time that can pass between two calls of loop(), in milliseconds.
Steps == {0, CYCLE_DELAY}

\* Values of the "timeout" argument of a /save request, as the characters
\* of the argument.
TimeoutArgs == {<<"9", "9", "9">>, <<"1", "0", "0", "0">>}

\* Values of the "timeout" argument of a /save request in SpecSettings: no
\* argument text, 0, 500, 999, 1000, 30000, 300000, 300001, -1000, abc,
\* 1000x, 2000 after a blank, and a number of eleven digits.
SettingsArgs ==
    {<<>>, <<"0">>, <<"5", "0", "0">>, <<"9", "9", "9">>, <<"1", "0", "0", "0">>,
     <<"3", "0", "0", "0", "0">>, <<"3", "0", "0", "0", "0", "0">>,
     <<"3", "0", "0", "0", "0", "1">>, <<"-", "1", "0", "0", "0">>,
     <<"a", "b", "c">>, <<"1", "0", "0", "0", "x">>, <<" ", "2", "0", "0", "0">>,
     <<"9", "9", "9", "9", "9", "9", "9", "9", "9", "9", "9">>}

\* Time that passes in one step of SpecFine, in milliseconds.
FineSteps == {DEBOUNCE_DELAY \div 2}

\* Time that can pass between two calls of loop() in SpecStroke, in
\* milliseconds: the quiescent delay, and the delay with a stroke just below
\* the noise floor and with one at the noise floor.
StrokeSteps == {CYCLE_DELAY, CYCLE_DELAY + MIN_STROKE - 1, CYCLE_DELAY + MIN_STROKE}

\* Cycle timeouts the flash can hold when the controller boots.
BootTimeouts == {MIN_CYCLE_TIMEOUT}

Min(a, b) == IF a < b THEN a ELSE b

\* Arduino's long is 32 bits wide on the ESP32.
LONG_MAX == 2147483647

Digit == [ch \in {"0", "1", "2", "3", "4", "5", "6", "7", "8", "9"} |->
             CASE ch = "0" -> 0 [] ch = "1" -> 1 [] ch = "2" -> 2 [] ch = "3" -> 3
               [] ch = "4" -> 4 [] ch = "5" -> 5 [] ch = "6" -> 6 [] ch = "7" -> 7
               [] ch = "8" -> 8 [] ch = "9" -> 9]

\* The value of the leading digits of str after the value acc, clamped at
\* LONG_MAX as strtol clamps it.
RECURSIVE Digits(_, _)
Digits(str, acc) ==
    IF str = <<>> \/ Head(str) \notin DOMAIN Digit THEN acc
    ELSE LET d == Digit[Head(str)]
         IN  Digits(Tail(str),
                    IF acc > (LONG_MAX - d) \div 10 THEN LONG_MAX
                    ELSE acc * 10 + d)

RECURSIVE SkipSpace(_)
SkipSpace(str) ==
    IF str # <<>> /\ Head(str) = " " THEN SkipSpace(Tail(str)) ELSE str

\* String::toInt(), which is atol(): leading blanks, an optional sign, the
\* leading digits; 0 when there are none.
toInt(str) ==
    LET body == SkipSpace(str)
    IN  IF body # <<>> /\ Head(body) = "-"
        THEN 0 - Digits(Tail(body), 0)
        ELSE IF body # <<>> /\ Head(body) = "+"
        THEN Digits(Tail(body), 0)
        ELSE Digits(body, 0)

\* The conversion of a long to the 32-bit unsigned long: a negative value
\* becomes a value above LONG_MAX, kept here as LONG_MAX (it is only compared
\* with MAX_CYCLE_TIMEOUT).
ToUnsignedLong(v) == IF v < 0 THEN LONG_MAX ELSE v

SetMax(S) == CHOOSE x \in S : \A y \in S : y <= x

\* Saturation caps of the ages.
DebounceCap == DEBOUNCE_DELAY + 1
CycleCap == SetMax({toInt(arg) : arg \in TimeoutArgs} \cup BootTimeouts) + 1
RawCap == DEBOUNCE_DELAY + 1
StatusCap == STATUS_UPDATE_INTERVAL + 1

---------------------------------------------------------------------------
(* The program state as one record, and the inputs of one call of loop() *)

State ==
    [currentMode |-> currentMode, cycleDirection |-> cycleDirection,
     gpo1 |-> gpo1, gpo2 |-> gpo2, isEstopActive |-> isEstopActive,
     inputA |-> inputA, inputB |-> inputB, inputC |-> inputC, inputD |-> inputD,
     lastEndStopIn |-> lastEndStopIn, lastEndStopOut |-> lastEndStopOut,
     lastCycleAge |-> lastCycleAge, cycleStartAge |-> cycleStartAge,
     cycleTimeout |-> cycleTimeout, timeoutEnabled |-> timeoutEnabled,
     flash |-> flash, stats |-> stats,
     writes |-> writes, errorLine |-> errorLine, ran |-> ran]

Becomes(r) ==
    /\ currentMode' = r.currentMode
    /\ cycleDirection' = r.cycleDirection
    /\ gpo1' = r.gpo1
    /\ gpo2' = r.gpo2
    /\ isEstopActive' = r.isEstopActive
    /\ inputA' = r.inputA
    /\ inputB' = r.inputB
    /\ inputC' = r.inputC
    /\ inputD' = r.inputD
    /\ lastEndStopIn' = r.lastEndStopIn
    /\ lastEndStopOut' = r.lastEndStopOut
    /\ lastCycleAge' = r.lastCycleAge
    /\ cycleStartAge' = r.cycleStartAge
    /\ cycleTimeout' = r.cycleTimeout
    /\ timeoutEnabled' = r.timeoutEnabled
    /\ flash' = r.flash
    /\ stats' = r.stats
    /\ writes' = r.writes
    /\ errorLine' = r.errorLine
    /\ ran' = r.ran

\* Levels of the seven input pins as one call of loop() reads them.  A call
\* that finds the e-stop open returns before it reads any other pin.
Held(p) == Cardinality({k \in {"a", "b", "c", "d"} : p[k] = LOW})

PinLevels ==
    {p \in [estop : {LOW}, a : BOOLEAN, b : BOOLEAN, c : BOOLEAN, d : BOOLEAN,
             esIn : BOOLEAN, esOut : BOOLEAN] : Held(p) <= MaxHeld}
    \cup
    [estop : {HIGH}, a : {HIGH}, b : {HIGH}, c : {HIGH}, d : {HIGH},
     esIn : {LOW}, esOut : {LOW}]

---------------------------------------------------------------------------
(* Pin writes and Serial output *)

digitalWrite(s, pin, level) ==
    IF pin = "GPO1_PIN"
    THEN [s EXCEPT !.gpo1 = level, !.writes = Append(@, <<pin, level>>)]
    ELSE [s EXCEPT !.gpo2 = level, !.writes = Append(@, <<pin, level>>)]

AllOff(s) == digitalWrite(digitalWrite(s, "GPO1_PIN", LOW), "GPO2_PIN", LOW)

---------------------------------------------------------------------------
(* Cycle statistics *)

RECURSIVE SumTo(_, _)
SumTo(f, n) == IF n = 0 THEN 0 ELSE f[n - 1] + SumTo(f, n - 1)

\* Faulty variant: the average is taken over the whole array.
updateStatsOverArray(st, duration) ==
    IF duration < MIN_STROKE THEN st
    ELSE LET durs == [st.cycleDurations EXCEPT ![st.cycleIndex] = duration]
             cnt == IF st.cycleCount < HISTORY_SIZE THEN st.cycleCount + 1
                    ELSE st.cycleCount
         IN  [cycleDurations |-> durs,
              cycleIndex |-> (st.cycleIndex + 1) % HISTORY_SIZE,
              cycleCount |-> cnt,
              avgDuration |-> SumTo(durs, HISTORY_SIZE) \div HISTORY_SIZE,
              lastDuration |-> duration]

\* Faulty variant: a stroke of exactly the noise floor is dropped too.
updateStatsFloorAbove(st, duration) ==
    IF duration <= MIN_STROKE THEN st
    ELSE LET durs == [st.cycleDurations EXCEPT ![st.cycleIndex] = duration]
             cnt == IF st.cycleCount < HISTORY_SIZE THEN st.cycleCount + 1
                    ELSE st.cycleCount
         IN  [cycleDurations |-> durs,
              cycleIndex |-> (st.cycleIndex + 1) % HISTORY_SIZE,
              cycleCount |-> cnt,
              avgDuration |-> SumTo(durs, cnt) \div cnt,
              lastDuration |-> duration]

updateStats(st, duration) ==
    IF duration < MIN_STROKE THEN st
    ELSE LET durs == [st.cycleDurations EXCEPT ![st.cycleIndex] = duration]
             cnt == IF st.cycleCount < HISTORY_SIZE THEN st.cycleCount + 1
                    ELSE st.cycleCount
         IN  [cycleDurations |-> durs,
              cycleIndex |-> (st.cycleIndex + 1) % HISTORY_SIZE,
              cycleCount |-> cnt,
              avgDuration |-> SumTo(durs, cnt) \div cnt,
              lastDuration |-> duration]

\* Faulty variant: the history is read from slot 0 whatever the write index.
historyFromZero(st) ==
    IF st.cycleCount > 0
    THEN [i \in 1 .. st.cycleCount |-> st.cycleDurations[(i - 1) % HISTORY_SIZE]]
    ELSE <<>>

\* The "history" array of the status snapshot (getStatusJson): the filled
\* slots from the oldest one on.
history(st) ==
    IF st.cycleCount > 0
    THEN LET idx == IF st.cycleCount < HISTORY_SIZE THEN 0 ELSE st.cycleIndex
         IN  [i \in 1 .. st.cycleCount |->
                 st.cycleDurations[(idx + i - 1) % HISTORY_SIZE]]
    ELSE <<>>

---------------------------------------------------------------------------
(* Button debouncing *)

\* Faulty variant: level-triggered, the pressed flag follows the stable level
\* on every call instead of being raised once per press.
updateButtonStateLevel(btn, reading) ==
    LET b1 == IF reading # btn.lastState THEN [btn EXCEPT !.debounceAge = 0]
              ELSE btn
        b2 == IF b1.debounceAge > DEBOUNCE_DELAY
              THEN [b1 EXCEPT !.currentState = reading,
                              !.pressed = (reading = LOW)]
              ELSE b1
    IN  [b2 EXCEPT !.lastState = reading]

\* Faulty variant: the debounce window is not waited for.
updateButtonStateNoWindow(btn, reading) ==
    LET b1 == IF reading # btn.lastState THEN [btn EXCEPT !.debounceAge = 0]
              ELSE btn
        b2 == IF reading # b1.currentState
              THEN [b1 EXCEPT !.currentState = reading,
                              !.pressed = (reading = LOW)]
              ELSE b1
    IN  [b2 EXCEPT !.lastState = reading]

\* Faulty variant: the press flag is not raised on a press.
updateButtonStateNoFlag(btn, reading) ==
    LET b1 == IF reading # btn.lastState THEN [btn EXCEPT !.debounceAge = 0]
              ELSE btn
        b2 == IF b1.debounceAge > DEBOUNCE_DELAY /\ reading # b1.currentState
              THEN [b1 EXCEPT !.currentState = reading, !.pressed = FALSE]
              ELSE b1
    IN  [b2 EXCEPT !.lastState = reading]

\* Faulty variant: the flag is raised on every debounced change, the release
\* included.
updateButtonStateAnyEdge(btn, reading) ==
    LET b1 == IF reading # btn.lastState THEN [btn EXCEPT !.debounceAge = 0]
              ELSE btn
        b2 == IF b1.debounceAge > DEBOUNCE_DELAY /\ reading # b1.currentState
              THEN [b1 EXCEPT !.currentState = reading, !.pressed = TRUE]
              ELSE b1
    IN  [b2 EXCEPT !.lastState = reading]

updateButtonState(btn, reading) ==
    LET b1 == IF reading # btn.lastState THEN [btn EXCEPT !.debounceAge = 0]
              ELSE btn
        b2 == IF b1.debounceAge > DEBOUNCE_DELAY /\ reading # b1.currentState
              THEN [b1 EXCEPT !.currentState = reading,
                              !.pressed = (reading = LOW)]
              ELSE b1
    IN  [b2 EXCEPT !.lastState = reading]


---------------------------------------------------------------------------
(* Manual mode handler *)

\* Faulty variant: the check for both manual inputs is missing, manual-extend
\* wins.
handleManualModeNoBothCheck(s, in) ==
    LET inputAPressed == (in.a = LOW)
        inputBPressed == (in.b = LOW)
        endStopIn == (in.esIn = HIGH)
        endStopOut == (in.esOut = HIGH)
        s1 == IF endStopIn THEN [s EXCEPT !.cycleDirection = CYCLE_OUT]
              ELSE IF endStopOut THEN [s EXCEPT !.cycleDirection = CYCLE_IN]
              ELSE s
    IN  IF inputAPressed THEN
            IF ~endStopOut
            THEN [digitalWrite(digitalWrite(s1, "GPO1_PIN", LOW), "GPO2_PIN", HIGH)
                    EXCEPT !.cycleDirection = CYCLE_OUT]
            ELSE AllOff(s1)
        ELSE IF inputBPressed THEN
            IF ~endStopIn
            THEN [digitalWrite(digitalWrite(s1, "GPO2_PIN", LOW), "GPO1_PIN", HIGH)
                    EXCEPT !.cycleDirection = CYCLE_IN]
            ELSE AllOff(s1)
        ELSE AllOff(s1)

\* Faulty variant: the requested output is switched on before the other one
\* is switched off.
handleManualModeOnFirst(s, in) ==
    LET inputAPressed == (in.a = LOW)
        inputBPressed == (in.b = LOW)
        endStopIn == (in.esIn = HIGH)
        endStopOut == (in.esOut = HIGH)
        s1 == IF endStopIn THEN [s EXCEPT !.cycleDirection = CYCLE_OUT]
              ELSE IF endStopOut THEN [s EXCEPT !.cycleDirection = CYCLE_IN]
              ELSE s
    IN  IF inputAPressed /\ inputBPressed THEN AllOff(s1)
        ELSE IF inputAPressed THEN
            IF ~endStopOut
            THEN [digitalWrite(digitalWrite(s1, "GPO2_PIN", HIGH), "GPO1_PIN", LOW)
                    EXCEPT !.cycleDirection = CYCLE_OUT]
            ELSE AllOff(s1)
        ELSE IF inputBPressed THEN
            IF ~endStopIn
            THEN [digitalWrite(digitalWrite(s1, "GPO1_PIN", HIGH), "GPO2_PIN", LOW)
                    EXCEPT !.cycleDirection = CYCLE_IN]
            ELSE AllOff(s1)
        ELSE AllOff(s1)

\* Faulty variant: a manual input drives its output whatever the end stops read.
handleManualModeNoLimit(s, in) ==
    LET inputAPressed == (in.a = LOW)
        inputBPressed == (in.b = LOW)
        endStopIn == (in.esIn = HIGH)
        endStopOut == (in.esOut = HIGH)
        s1 == IF endStopIn THEN [s EXCEPT !.cycleDirection = CYCLE_OUT]
              ELSE IF endStopOut THEN [s EXCEPT !.cycleDirection = CYCLE_IN]
              ELSE s
    IN  IF inputAPressed /\ inputBPressed THEN AllOff(s1)
        ELSE IF inputAPressed THEN
            [digitalWrite(digitalWrite(s1, "GPO1_PIN", LOW), "GPO2_PIN", HIGH)
                EXCEPT !.cycleDirection = CYCLE_OUT]
        ELSE IF inputBPressed THEN
            [digitalWrite(digitalWrite(s1, "GPO2_PIN", LOW), "GPO1_PIN", HIGH)
                EXCEPT !.cycleDirection = CYCLE_IN]
        ELSE AllOff(s1)

\* Faulty variant: the end stops do not set the direction in manual mode.
handleManualModeNoPreSteer(s, in) ==
    LET inputAPressed == (in.a = LOW)
        inputBPressed == (in.b = LOW)
        endStopIn == (in.esIn = HIGH)
        endStopOut == (in.esOut = HIGH)
    IN  IF inputAPressed /\ inputBPressed THEN AllOff(s)
        ELSE IF inputAPressed THEN
            LET s2 == digitalWrite(s, "GPO1_PIN", LOW)
            IN  IF ~endStopOut
                THEN [digitalWrite(s2, "GPO2_PIN", HIGH)
                        EXCEPT !.cycleDirection = CYCLE_OUT]
                ELSE digitalWrite(s2, "GPO2_PIN", LOW)
        ELSE IF inputBPressed THEN
            LET s2 == digitalWrite(s, "GPO2_PIN", LOW)
            IN  IF ~endStopIn
                THEN [digitalWrite(s2, "GPO1_PIN", HIGH)
                        EXCEPT !.cycleDirection = CYCLE_IN]
                ELSE digitalWrite(s2, "GPO1_PIN", LOW)
        ELSE AllOff(s)

handleManualMode(s, in) ==
    LET inputAPressed == (in.a = LOW)
        inputBPressed == (in.b = LOW)
        endStopIn == (in.esIn = HIGH)
        endStopOut == (in.esOut = HIGH)
        \* direction follows the end stops even in manual mode
        s1 == IF endStopIn THEN [s EXCEPT !.cycleDirection = CYCLE_OUT]
              ELSE IF endStopOut THEN [s EXCEPT !.cycleDirection = CYCLE_IN]
              ELSE s
    IN  IF inputAPressed /\ inputBPressed THEN AllOff(s1)
        ELSE IF inputAPressed THEN
            LET s2 == digitalWrite(s1, "GPO1_PIN", LOW)
            IN  IF ~endStopOut
                THEN [digitalWrite(s2, "GPO2_PIN", HIGH)
                        EXCEPT !.cycleDirection = CYCLE_OUT]
                ELSE digitalWrite(s2, "GPO2_PIN", LOW)
        ELSE IF inputBPressed THEN
            LET s2 == digitalWrite(s1, "GPO2_PIN", LOW)
            IN  IF ~endStopIn
                THEN [digitalWrite(s2, "GPO1_PIN", HIGH)
                        EXCEPT !.cycleDirection = CYCLE_IN]
                ELSE digitalWrite(s2, "GPO1_PIN", LOW)
        ELSE AllOff(s1)

---------------------------------------------------------------------------
(* Auto loop mode handler *)

\* Faulty variant: the shutdown leaves the direction as it is.
SafetyStopKeepDirection(s, line) ==
    [AllOff([s EXCEPT !.errorLine = line])
        EXCEPT !.currentMode = MODE_MANUAL,
               !.inputC.pressed = FALSE,
               !.inputD.pressed = FALSE]

\* Faulty variant: the shutdown stops the cycle and stays in AUTO.
SafetyStopStaysAuto(s, line) ==
    [AllOff([s EXCEPT !.errorLine = line])
        EXCEPT !.cycleDirection = CYCLE_STOPPED,
               !.inputC.pressed = FALSE,
               !.inputD.pressed = FALSE]

\* The forced shutdown shared by the two safety checks of the handler.
SafetyStop(s, line) ==
    [AllOff([s EXCEPT !.errorLine = line])
        EXCEPT !.cycleDirection = CYCLE_STOPPED,
               !.currentMode = MODE_MANUAL,
               !.inputC.pressed = FALSE,
               !.inputD.pressed = FALSE]

\* Faulty variant: the quiescent delay is not taken off the stroke duration.
ReverseRawDuration(s, to) ==
    LET rawDuration == s.cycleStartAge
        s2 == IF rawDuration > CYCLE_DELAY
              THEN [s EXCEPT !.stats = updateStats(@, rawDuration)]
              ELSE s
    IN  [s2 EXCEPT !.cycleDirection = to, !.lastCycleAge = 0, !.cycleStartAge = 0]

\* End stop reached: record the stroke, reverse, restart both timers.
Reverse(s, to) ==
    LET rawDuration == s.cycleStartAge
        s2 == IF rawDuration > CYCLE_DELAY
              THEN [s EXCEPT !.stats = updateStats(@, rawDuration - CYCLE_DELAY)]
              ELSE s
    IN  [s2 EXCEPT !.cycleDirection = to, !.lastCycleAge = 0, !.cycleStartAge = 0]

\* Faulty variant: the quiescent delay lasts one millisecond too long.
DriveCycleLate(s) ==
    IF s.lastCycleAge <= CYCLE_DELAY THEN AllOff(s)
    ELSE IF s.cycleDirection = CYCLE_IN
    THEN digitalWrite(digitalWrite(s, "GPO2_PIN", LOW), "GPO1_PIN", HIGH)
    ELSE IF s.cycleDirection = CYCLE_OUT
    THEN digitalWrite(digitalWrite(s, "GPO1_PIN", LOW), "GPO2_PIN", HIGH)
    ELSE AllOff(s)

\* Faulty variant: no quiescent delay after a reversal or an AUTO entry.
DriveCycleNoDelay(s) ==
    IF s.cycleDirection = CYCLE_IN
    THEN digitalWrite(digitalWrite(s, "GPO2_PIN", LOW), "GPO1_PIN", HIGH)
    ELSE IF s.cycleDirection = CYCLE_OUT
    THEN digitalWrite(digitalWrite(s, "GPO1_PIN", LOW), "GPO2_PIN", HIGH)
    ELSE AllOff(s)

\* Outputs of the handler once the safety checks and the reversal are done.
DriveCycle(s) ==
    IF s.lastCycleAge < CYCLE_DELAY THEN AllOff(s)
    ELSE IF s.cycleDirection = CYCLE_IN
         THEN digitalWrite(digitalWrite(s, "GPO2_PIN", LOW), "GPO1_PIN", HIGH)
    ELSE IF s.cycleDirection = CYCLE_OUT
         THEN digitalWrite(digitalWrite(s, "GPO1_PIN", LOW), "GPO2_PIN", HIGH)
    ELSE AllOff(s)

\* Faulty variant: either end stop reverses the direction.
handleAutoLoopModeAnyStop(s, in) ==
    LET endStopIn == (in.esIn = HIGH)
        endStopOut == (in.esOut = HIGH)
    IN  IF endStopIn /\ endStopOut
        THEN SafetyStop(s, "ERROR: Both end stops triggered!")
        ELSE IF s.timeoutEnabled /\ s.cycleStartAge > s.cycleTimeout
        THEN SafetyStop(s, "ERROR: Cycle timeout!")
        ELSE IF s.cycleDirection = CYCLE_IN /\ (endStopIn \/ endStopOut)
        THEN DriveCycle(Reverse(s, CYCLE_OUT))
        ELSE IF s.cycleDirection = CYCLE_OUT /\ (endStopIn \/ endStopOut)
        THEN DriveCycle(Reverse(s, CYCLE_IN))
        ELSE DriveCycle(s)

\* Faulty variant: the timeout check is missing.
handleAutoLoopModeNoTimeout(s, in) ==
    LET endStopIn == (in.esIn = HIGH)
        endStopOut == (in.esOut = HIGH)
    IN  IF endStopIn /\ endStopOut
        THEN SafetyStop(s, "ERROR: Both end stops triggered!")
        ELSE IF s.cycleDirection = CYCLE_IN /\ endStopIn
        THEN DriveCycle(Reverse(s, CYCLE_OUT))
        ELSE IF s.cycleDirection = CYCLE_OUT /\ endStopOut
        THEN DriveCycle(Reverse(s, CYCLE_IN))
        ELSE DriveCycle(s)

\* Faulty variant: a timeout found together with the end stop of the current
\* direction restarts the cycle in the other direction instead of shutting
\* down.
handleAutoLoopModeLateReversal(s, in) ==
    LET endStopIn == (in.esIn = HIGH)
        endStopOut == (in.esOut = HIGH)
        restart(to) == DriveCycle([s EXCEPT !.cycleDirection = to,
                                            !.lastCycleAge = 0,
                                            !.cycleStartAge = 0])
    IN  IF endStopIn /\ endStopOut
        THEN SafetyStop(s, "ERROR: Both end stops triggered!")
        ELSE IF s.timeoutEnabled /\ s.cycleStartAge > s.cycleTimeout
        THEN IF s.cycleDirection = CYCLE_IN /\ endStopIn THEN restart(CYCLE_OUT)
             ELSE IF s.cycleDirection = CYCLE_OUT /\ endStopOut THEN restart(CYCLE_IN)
             ELSE SafetyStop(s, "ERROR: Cycle timeout!")
        ELSE IF s.cycleDirection = CYCLE_IN /\ endStopIn
        THEN DriveCycle(Reverse(s, CYCLE_OUT))
        ELSE IF s.cycleDirection = CYCLE_OUT /\ endStopOut
        THEN DriveCycle(Reverse(s, CYCLE_IN))
        ELSE DriveCycle(s)

\* Faulty variant: only end stop IN reverses the cycle.
handleAutoLoopModeOneWay(s, in) ==
    LET endStopIn == (in.esIn = HIGH)
        endStopOut == (in.esOut = HIGH)
    IN  IF endStopIn /\ endStopOut
        THEN SafetyStop(s, "ERROR: Both end stops triggered!")
        ELSE IF s.timeoutEnabled /\ s.cycleStartAge > s.cycleTimeout
        THEN SafetyStop(s, "ERROR: Cycle timeout!")
        ELSE IF s.cycleDirection = CYCLE_IN /\ endStopIn
        THEN DriveCycle(Reverse(s, CYCLE_OUT))
        ELSE DriveCycle(s)

handleAutoLoopMode(s, in) ==
    LET endStopIn == (in.esIn = HIGH)
        endStopOut == (in.esOut = HIGH)
    IN  IF endStopIn /\ endStopOut
        THEN SafetyStop(s, "ERROR: Both end stops triggered!")
        ELSE IF s.timeoutEnabled /\ s.cycleStartAge > s.cycleTimeout
        THEN SafetyStop(s, "ERROR: Cycle timeout!")
        ELSE IF s.cycleDirection = CYCLE_IN /\ endStopIn
        THEN DriveCycle(Reverse(s, CYCLE_OUT))
        ELSE IF s.cycleDirection = CYCLE_OUT /\ endStopOut
        THEN DriveCycle(Reverse(s, CYCLE_IN))
        ELSE DriveCycle(s)

---------------------------------------------------------------------------
(* loop() *)

\* Faulty variant: the e-stop switches the outputs off and leaves mode and
\* direction alone.
EstopTickOutputsOnly(s) ==
    LET s1 == IF ~s.isEstopActive THEN [s EXCEPT !.isEstopActive = TRUE] ELSE s
    IN  AllOff(s1)

\* Faulty variant: the e-stop also discards the press flags of the buttons.
EstopTickClearsFlags(s) ==
    LET s1 == IF ~s.isEstopActive THEN [s EXCEPT !.isEstopActive = TRUE] ELSE s
    IN  [AllOff(s1) EXCEPT !.currentMode = MODE_MANUAL,
                           !.cycleDirection = CYCLE_STOPPED,
                           !.inputA.pressed = FALSE, !.inputB.pressed = FALSE,
                           !.inputC.pressed = FALSE, !.inputD.pressed = FALSE]

\* The e-stop check at the head of loop(), e-stop open.
EstopTick(s) ==
    LET s1 == IF ~s.isEstopActive THEN [s EXCEPT !.isEstopActive = TRUE] ELSE s
    IN  [AllOff(s1) EXCEPT !.currentMode = MODE_MANUAL,
                           !.cycleDirection = CYCLE_STOPPED]

\* The e-stop check at the head of loop(), e-stop closed.
EstopReleased(s) ==
    IF s.isEstopActive THEN [s EXCEPT !.isEstopActive = FALSE] ELSE s

\* Debounce the four buttons and track the end stops.
ReadInputs(s, in) ==
    [s EXCEPT !.inputA = updateButtonState(@, in.a),
              !.inputB = updateButtonState(@, in.b),
              !.inputC = updateButtonState(@, in.c),
              !.inputD = updateButtonState(@, in.d),
              !.lastEndStopIn = in.esIn,
              !.lastEndStopOut = in.esOut]

\* Faulty variant: entering AUTO does not restart the reversal timer.
StartAutoNoRestart(s) ==
    IF s.inputC.pressed
    THEN LET s1 == IF s.currentMode # MODE_AUTO_LOOP
                   THEN [s EXCEPT !.currentMode = MODE_AUTO_LOOP,
                           !.cycleDirection =
                               IF @ = CYCLE_STOPPED THEN CYCLE_OUT ELSE @,
                           !.cycleStartAge = 0]
                   ELSE s
         IN  [s1 EXCEPT !.inputC.pressed = FALSE]
    ELSE s

\* Faulty variant: AUTO always starts in direction OUT.
StartAutoAlwaysOut(s) ==
    IF s.inputC.pressed
    THEN LET s1 == IF s.currentMode # MODE_AUTO_LOOP
                   THEN [s EXCEPT !.currentMode = MODE_AUTO_LOOP,
                           !.cycleDirection = CYCLE_OUT,
                           !.lastCycleAge = 0,
                           !.cycleStartAge = 0]
                   ELSE s
         IN  [s1 EXCEPT !.inputC.pressed = FALSE]
    ELSE s

\* Start AUTO loop request.
StartAuto(s) ==
    IF s.inputC.pressed
    THEN LET s1 == IF s.currentMode # MODE_AUTO_LOOP
                   THEN [s EXCEPT !.currentMode = MODE_AUTO_LOOP,
                           !.cycleDirection =
                               IF @ = CYCLE_STOPPED THEN CYCLE_OUT ELSE @,
                           !.lastCycleAge = 0,
                           !.cycleStartAge = 0]
                   ELSE s
         IN  [s1 EXCEPT !.inputC.pressed = FALSE]
    ELSE s

\* Faulty variant: only stop-auto leaves AUTO, the manual inputs do not.
StopAutoStopOnly(s) ==
    IF s.inputD.pressed
    THEN LET s1 == IF s.currentMode = MODE_AUTO_LOOP
                   THEN AllOff([s EXCEPT !.currentMode = MODE_MANUAL])
                   ELSE s
         IN  [s1 EXCEPT !.inputD.pressed = FALSE]
    ELSE s

\* Faulty variant: leaving AUTO resets the direction.
StopAutoResetDirection(s) ==
    IF s.inputD.pressed
       \/ (s.currentMode = MODE_AUTO_LOOP /\ (s.inputA.pressed \/ s.inputB.pressed))
    THEN LET s1 == IF s.currentMode = MODE_AUTO_LOOP
                   THEN AllOff([s EXCEPT !.currentMode = MODE_MANUAL,
                                         !.cycleDirection = CYCLE_STOPPED])
                   ELSE s
         IN  [s1 EXCEPT !.inputD.pressed = FALSE]
    ELSE s

\* Faulty variant: the manual override consumes the press flags of the
\* manual inputs, as the stop request consumes its own.
StopAutoConsumesOverride(s) ==
    IF s.inputD.pressed
       \/ (s.currentMode = MODE_AUTO_LOOP /\ (s.inputA.pressed \/ s.inputB.pressed))
    THEN LET s1 == IF s.currentMode = MODE_AUTO_LOOP
                   THEN AllOff([s EXCEPT !.currentMode = MODE_MANUAL,
                                         !.inputA.pressed = FALSE,
                                         !.inputB.pressed = FALSE])
                   ELSE s
         IN  [s1 EXCEPT !.inputD.pressed = FALSE]
    ELSE s

\* Stop AUTO loop request.
StopAuto(s) ==
    IF s.inputD.pressed
       \/ (s.currentMode = MODE_AUTO_LOOP /\ (s.inputA.pressed \/ s.inputB.pressed))
    THEN LET s1 == IF s.currentMode = MODE_AUTO_LOOP
                   THEN AllOff([s EXCEPT !.currentMode = MODE_MANUAL])
                   ELSE s
         IN  [s1 EXCEPT !.inputD.pressed = FALSE]
    ELSE s

\* Dispatch on the mode.
Execute(s, in) ==
    IF s.currentMode = MODE_MANUAL
    THEN handleManualMode([s EXCEPT !.ran = "manual"], in)
    ELSE handleAutoLoopMode([s EXCEPT !.ran = "auto"], in)

loop(s, in) ==
    IF in.estop = HIGH
    THEN EstopTick([s EXCEPT !.ran = "estop"])
    ELSE Execute(StopAuto(StartAuto(ReadInputs(EstopReleased(s), in))), in)

\* The notifyClients calls of updateButtonState in one call of loop(): one
\* for every button whose debounced press edge the call raises.
PressEdges(s, in) ==
    LET edge(btn, reading) ==
            IF btn.currentState = HIGH
               /\ updateButtonState(btn, reading).currentState = LOW
            THEN 1 ELSE 0
    IN  edge(s.inputA, in.a) + edge(s.inputB, in.b)
        + edge(s.inputC, in.c) + edge(s.inputD, in.d)

\* stateChanged at the end of a call of loop() that finds the e-stop closed.
stateChanged(s, in) ==
    LET s1 == ReadInputs(EstopReleased(s), in)
        s2 == StartAuto(s1)
        s3 == StopAuto(s2)
        s4 == Execute(s3, in)
    IN  \/ s.isEstopActive
        \/ in.esIn # s.lastEndStopIn
        \/ in.esOut # s.lastEndStopOut
        \/ s2.currentMode # s1.currentMode
        \/ s3.currentMode # s2.currentMode
        \/ s4.gpo1 # s3.gpo1
        \/ s4.gpo2 # s3.gpo2
        \/ s4.cycleDirection # s3.cycleDirection

\* The status broadcasts of one call of loop(): st.lastStatusAge is
\* millis() - lastStatusUpdate at the call, st.sinceSent the time since the
\* latest notifyClients call.
loopStatus(s, in, st) ==
    IF in.estop = HIGH
    THEN IF ~s.isEstopActive
         THEN [st EXCEPT !.sent = 1, !.sinceSent = 0]
         ELSE [st EXCEPT !.sent = 0]
    ELSE LET presses == PressEdges(s, in)
             final == stateChanged(s, in)
                      \/ st.lastStatusAge > STATUS_UPDATE_INTERVAL
         IN  [sent |-> presses + (IF final THEN 1 ELSE 0),
              lastStatusAge |-> IF final THEN 0 ELSE st.lastStatusAge,
              sinceSent |-> IF final \/ presses > 0 THEN 0 ELSE st.sinceSent]

\* Ages the program cannot read any more are held at their cap: the debounce
\* age of a button whose raw and stable levels agree (the next call either
\* finds the raw level unchanged, and then has nothing to update, or restarts
\* the age), and both cycle ages in MANUAL (StartAuto restarts them before
\* handleAutoLoopMode reads them).
Settle(s) ==
    LET rest(btn) == IF btn.lastState = btn.currentState
                     THEN [btn EXCEPT !.debounceAge = DebounceCap]
                     ELSE btn
        s1 == [s EXCEPT !.inputA = rest(@), !.inputB = rest(@),
                        !.inputC = rest(@), !.inputD = rest(@)]
    IN  IF s1.currentMode = MODE_MANUAL
        THEN [s1 EXCEPT !.lastCycleAge = CycleCap, !.cycleStartAge = CycleCap]
        ELSE s1

\* The clock moves on by dt between two calls of loop().
Elapse(s, dt) ==
    LET older(btn) == [btn EXCEPT !.debounceAge = Min(@ + dt, DebounceCap)]
    IN  [s EXCEPT !.inputA = older(@), !.inputB = older(@),
                  !.inputC = older(@), !.inputD = older(@),
                  !.lastCycleAge = Min(@ + dt, CycleCap),
                  !.cycleStartAge = Min(@ + dt, CycleCap),
                  !.writes = <<>>, !.errorLine = "none"]

---------------------------------------------------------------------------
(* Settings, OTA and restart *)

loadSettings(s) ==
    [s EXCEPT !.cycleTimeout = s.flash.cycleTimeout,
              !.timeoutEnabled = s.flash.timeoutEnabled]

saveSettings(s) ==
    [s EXCEPT !.flash = [cycleTimeout |-> s.cycleTimeout,
                         timeoutEnabled |-> s.timeoutEnabled]]

\* A /save request: hasTimeout and timeout are the "timeout" argument,
\* hasEnabled the presence of the "timeoutEnabled" argument.
\* Faulty variant: timeoutEnabled is taken from the request before the
\* timeout is validated.
handleSaveSettingsEnabledFirst(s, hasTimeout, timeout, hasEnabled) ==
    LET newTimeout == ToUnsignedLong(toInt(timeout))
    IN  IF hasTimeout
           /\ ~(newTimeout >= MIN_CYCLE_TIMEOUT /\ newTimeout <= MAX_CYCLE_TIMEOUT)
        THEN [s EXCEPT !.timeoutEnabled = hasEnabled]
        ELSE saveSettings(
                 [s EXCEPT !.cycleTimeout = IF hasTimeout THEN newTimeout ELSE @,
                           !.timeoutEnabled = hasEnabled])

\* Faulty variant: a request that enables the timeout also starts AUTO.
handleSaveSettingsStartsAuto(s, hasTimeout, timeout, hasEnabled) ==
    LET newTimeout == ToUnsignedLong(toInt(timeout))
    IN  IF hasTimeout
           /\ ~(newTimeout >= MIN_CYCLE_TIMEOUT /\ newTimeout <= MAX_CYCLE_TIMEOUT)
        THEN s
        ELSE saveSettings(
                 [s EXCEPT !.cycleTimeout = IF hasTimeout THEN newTimeout ELSE @,
                           !.timeoutEnabled = hasEnabled,
                           !.currentMode = IF hasEnabled THEN MODE_AUTO_LOOP ELSE @])

\* Faulty variant: a request without the timeoutEnabled argument leaves the
\* setting as it is.
handleSaveSettingsKeepsEnabled(s, hasTimeout, timeout, hasEnabled) ==
    LET newTimeout == ToUnsignedLong(toInt(timeout))
    IN  IF hasTimeout
           /\ ~(newTimeout >= MIN_CYCLE_TIMEOUT /\ newTimeout <= MAX_CYCLE_TIMEOUT)
        THEN s
        ELSE saveSettings(
                 [s EXCEPT !.cycleTimeout = IF hasTimeout THEN newTimeout ELSE @,
                           !.timeoutEnabled = IF hasEnabled THEN TRUE ELSE @])

\* Faulty variant: the timeout has no upper limit.
handleSaveSettingsNoUpper(s, hasTimeout, timeout, hasEnabled) ==
    LET newTimeout == ToUnsignedLong(toInt(timeout))
    IN  IF hasTimeout /\ ~(newTimeout >= MIN_CYCLE_TIMEOUT)
        THEN s
        ELSE saveSettings(
                 [s EXCEPT !.cycleTimeout = IF hasTimeout THEN newTimeout ELSE @,
                           !.timeoutEnabled = hasEnabled])

handleSaveSettings(s, hasTimeout, timeout, hasEnabled) ==
    LET newTimeout == ToUnsignedLong(toInt(timeout))
    IN  IF hasTimeout
           /\ ~(newTimeout >= MIN_CYCLE_TIMEOUT /\ newTimeout <= MAX_CYCLE_TIMEOUT)
        THEN s
        ELSE saveSettings(
                 [s EXCEPT !.cycleTimeout = IF hasTimeout THEN newTimeout ELSE @,
                           !.timeoutEnabled = hasEnabled])

\* The status code of the response to a /save request.
saveStatus(hasTimeout, timeout) ==
    LET newTimeout == ToUnsignedLong(toInt(timeout))
    IN  IF hasTimeout
           /\ ~(newTimeout >= MIN_CYCLE_TIMEOUT /\ newTimeout <= MAX_CYCLE_TIMEOUT)
        THEN 400
        ELSE 200

\* Faulty variant: the callback also takes the system out of AUTO.
otaOnStartToManual(s) ==
    AllOff([s EXCEPT !.writes = <<>>, !.errorLine = "none", !.ran = "ota",
                     !.currentMode = MODE_MANUAL,
                     !.cycleDirection = CYCLE_STOPPED])

\* The ArduinoOTA onStart callback.
otaOnStart(s) ==
    AllOff([s EXCEPT !.writes = <<>>, !.errorLine = "none", !.ran = "ota"])

\* Faulty variant: the buttons start with a press pending.
NoButtonPending == [lastState |-> HIGH, currentState |-> HIGH, debounceAge |-> 0,
                    pressed |-> TRUE]

NoButton == [lastState |-> HIGH, currentState |-> HIGH, debounceAge |-> 0,
             pressed |-> FALSE]

NoStats == [cycleDurations |-> [i \in 0 .. HISTORY_SIZE - 1 |-> 0],
            cycleIndex |-> 0, cycleCount |-> 0,
            lastDuration |-> 0, avgDuration |-> 0]

\* The state setup() leaves, given what the flash holds.
setup(fl) ==
    loadSettings(
        [currentMode |-> MODE_MANUAL, cycleDirection |-> CYCLE_STOPPED,
         gpo1 |-> LOW, gpo2 |-> LOW, isEstopActive |-> FALSE,
         inputA |-> NoButton, inputB |-> NoButton,
         inputC |-> NoButton, inputD |-> NoButton,
         lastEndStopIn |-> HIGH, lastEndStopOut |-> HIGH,
         lastCycleAge |-> 0, cycleStartAge |-> 0,
         cycleTimeout |-> DEFAULT_CYCLE_TIMEOUT, timeoutEnabled |-> TRUE,
         flash |-> fl, stats |-> NoStats,
         writes |-> <<<<"GPO1_PIN", LOW>>, <<"GPO2_PIN", LOW>>>>,
         errorLine |-> "none", ran |-> "setup"])

---------------------------------------------------------------------------
(* Actions *)

Starts(r) ==
    /\ currentMode = r.currentMode
    /\ cycleDirection = r.cycleDirection
    /\ gpo1 = r.gpo1
    /\ gpo2 = r.gpo2
    /\ isEstopActive = r.isEstopActive
    /\ inputA = r.inputA
    /\ inputB = r.inputB
    /\ inputC = r.inputC
    /\ inputD = r.inputD
    /\ lastEndStopIn = r.lastEndStopIn
    /\ lastEndStopOut = r.lastEndStopOut
    /\ lastCycleAge = r.lastCycleAge
    /\ cycleStartAge = r.cycleStartAge
    /\ cycleTimeout = r.cycleTimeout
    /\ timeoutEnabled = r.timeoutEnabled
    /\ flash = r.flash
    /\ stats = r.stats
    /\ writes = r.writes
    /\ errorLine = r.errorLine
    /\ ran = r.ran

\* Both signals released for longer than the debounce window.
RawIdle ==
    [a |-> [level |-> HIGH, age |-> RawCap],
     c |-> [level |-> HIGH, age |-> RawCap, sampledLate |-> FALSE]]

NoRequest == [status |-> 0, hasTimeout |-> FALSE, timeout |-> <<>>,
              hasEnabled |-> FALSE]

\* updateStats has not been called.
NoStrokes == [offered |-> 0, accepted |-> <<>>]

\* No press edge yet on either channel.
NoEdges ==
    [a |-> [raised |-> FALSE, age |-> RawCap],
     c |-> [raised |-> FALSE, age |-> RawCap]]

\* No snapshot is being built.
NoSnapshot == [at |-> "idle", by |-> "none", gpo1 |-> LOW, gpo2 |-> LOW]

\* No broadcast yet; lastStatusUpdate is 0, the value of millis() at boot.
NoStatus == [sent |-> 0, lastStatusAge |-> 0, sinceSent |-> 0]

Init ==
    /\ \E to \in BootTimeouts, en \in BOOLEAN :
           Starts(Settle(setup([cycleTimeout |-> to, timeoutEnabled |-> en])))
    /\ raw = RawIdle
    /\ http = NoRequest
    /\ strokes = NoStrokes
    /\ update = "none"
    /\ status = NoStatus
    /\ edges = NoEdges
    /\ snapshot = NoSnapshot

\* One call of loop(), dt after the previous one.  A stroke is recorded only
\* while its duration is known exactly (the cycle age is below its cap) and
\* the statistics hold fewer than MaxStrokes strokes.
Tick ==
    \E dt \in Steps, in \in PinLevels :
        LET e == Elapse(State, dt)
        IN  \E r \in {Settle(loop(e, in))} :
                /\ r.stats # e.stats =>
                       e.cycleStartAge < CycleCap /\ r.stats.cycleCount <= MaxStrokes
                /\ Becomes(r)
                /\ UNCHANGED <<raw, http, strokes, update, status, edges, snapshot>>

\* An ArduinoOTA update starts between two calls of loop().  (With both
\* outputs off already the callback changes no variable of the program, and
\* the step is left out.)
OtaStart ==
    /\ ~(gpo1 = LOW /\ gpo2 = LOW)
    /\ Becomes(otaOnStart(State))
    /\ UNCHANGED <<raw, http, strokes, update, status, edges, snapshot>>

SaveSettings ==
    \E hasTimeout \in BOOLEAN, timeout \in TimeoutArgs, hasEnabled \in BOOLEAN :
        /\ Becomes(handleSaveSettings(State, hasTimeout, timeout, hasEnabled))
        /\ UNCHANGED <<raw, http, strokes, update, status, edges, snapshot>>

\* handleSetWiFi: save, then ESP.restart() and setup() again.
SetWiFi ==
    /\ Becomes(Settle(setup(saveSettings(State).flash)))
    /\ UNCHANGED <<raw, http, strokes, update, status, edges, snapshot>>

Next == Tick \/ SaveSettings \/ SetWiFi

\* The control loop with the settings requests.
Spec == Init /\ [][Next]_vars

\* A /save request with its response recorded.
SaveRequest ==
    \E hasTimeout \in BOOLEAN, timeout \in SettingsArgs, hasEnabled \in BOOLEAN :
        /\ Becomes(handleSaveSettings(State, hasTimeout, timeout, hasEnabled))
        /\ http' = [status |-> saveStatus(hasTimeout, timeout),
                    hasTimeout |-> hasTimeout, timeout |-> timeout,
                    hasEnabled |-> hasEnabled]
        /\ UNCHANGED <<raw, strokes, update, status, edges, snapshot>>

\* A restart (power cycle, or the reboot that ends an update): setup() runs
\* on what the flash holds.
Reboot ==
    /\ Becomes(Settle(setup(flash)))
    /\ http' = NoRequest
    /\ UNCHANGED <<raw, strokes, update, status, edges, snapshot>>

NextSettings == SaveRequest \/ Reboot

\* The settings requests alone, over a wider range of timeout arguments.
SpecSettings == Init /\ [][NextSettings]_vars

\* The signals on INPUT_A and INPUT_C followed between the calls of loop():
\* time passes without a call of loop(),
FineWait ==
    \E dt \in FineSteps :
        /\ Becomes([Elapse(State, dt) EXCEPT !.ran = "idle"])
        /\ raw' = [raw EXCEPT !.a.age = Min(@ + dt, RawCap),
                              !.c.age = Min(@ + dt, RawCap)]
        /\ UNCHANGED <<http, strokes, update, status, edges, snapshot>>

\* one of the two signals changes its level,
Flip ==
    /\ \/ raw' = [raw EXCEPT !.a = [level |-> ~raw.a.level, age |-> 0]]
       \/ raw' = [raw EXCEPT !.c = [level |-> ~raw.c.level, age |-> 0,
                                    sampledLate |-> FALSE]]
    /\ Becomes([Elapse(State, 0) EXCEPT !.ran = "idle"])
    /\ UNCHANGED <<http, strokes, update, status, edges, snapshot>>

\* or loop() runs and reads the levels the signals have; the other buttons
\* are released and no end stop is triggered.
Sample ==
    \E estop \in BOOLEAN :
        /\ Becomes(Settle(loop(Elapse(State, 0),
                               [estop |-> estop, a |-> raw.a.level, b |-> HIGH,
                                c |-> raw.c.level, d |-> HIGH,
                                esIn |-> LOW, esOut |-> LOW])))
        /\ raw' = [raw EXCEPT !.c.sampledLate =
                       @ \/ (estop = LOW /\ raw.c.age > DEBOUNCE_DELAY)]
        /\ UNCHANGED <<http, strokes, update, status, edges, snapshot>>

NextFine == FineWait \/ Flip \/ Sample

\* The control loop at the time scale of the debounce window.
SpecFine == Init /\ [][NextFine]_vars

\* The call of updateButtonState raises the press flag of the button.
raisedEdge(btn, reading) == updateButtonState(btn, reading).pressed /\ ~btn.pressed

\* The same three steps with the press edges followed: time passes,
EdgeWait ==
    \E dt \in FineSteps :
        /\ Becomes([Elapse(State, dt) EXCEPT !.ran = "idle"])
        /\ raw' = [raw EXCEPT !.a.age = Min(@ + dt, RawCap),
                              !.c.age = Min(@ + dt, RawCap)]
        /\ edges' = [edges EXCEPT !.a.age = Min(@ + dt, RawCap),
                                  !.c.age = Min(@ + dt, RawCap)]
        /\ UNCHANGED <<http, strokes, update, status, snapshot>>

\* a signal changes its level,
EdgeFlip ==
    /\ \/ raw' = [raw EXCEPT !.a = [level |-> ~raw.a.level, age |-> 0]]
       \/ raw' = [raw EXCEPT !.c = [level |-> ~raw.c.level, age |-> 0,
                                    sampledLate |-> FALSE]]
    /\ Becomes([Elapse(State, 0) EXCEPT !.ran = "idle"])
    /\ UNCHANGED <<http, strokes, update, status, edges, snapshot>>

\* or loop() runs: a call that finds the e-stop open returns before it
\* calls updateButtonState.
EdgeSample ==
    \E estop \in BOOLEAN :
        LET e == Elapse(State, 0)
            follow(was, btn, reading) ==
                IF estop = LOW /\ raisedEdge(btn, reading)
                THEN [raised |-> TRUE, age |-> 0]
                ELSE [raised |-> FALSE, age |-> was.age]
        IN  /\ Becomes(Settle(loop(e, [estop |-> estop, a |-> raw.a.level,
                                       b |-> HIGH, c |-> raw.c.level, d |-> HIGH,
                                       esIn |-> LOW, esOut |-> LOW])))
            /\ raw' = [raw EXCEPT !.c.sampledLate =
                           @ \/ (estop = LOW /\ raw.c.age > DEBOUNCE_DELAY)]
            /\ edges' = [a |-> follow(edges.a, e.inputA, raw.a.level),
                         c |-> follow(edges.c, e.inputC, raw.c.level)]
            /\ UNCHANGED <<http, strokes, update, status, snapshot>>

NextEdge == EdgeWait \/ EdgeFlip \/ EdgeSample

\* The control loop at the time scale of the debounce window, with the press
\* edges of INPUT_A and INPUT_C followed.
SpecEdge == Init /\ [][NextEdge]_vars

\* The durations of seq that are not the shortest duration accepted.
Varied(seq) ==
    LET usual == CHOOSE d \in StrokeDurations :
                     /\ d >= MIN_STROKE
                     /\ \A e \in StrokeDurations : e >= MIN_STROKE => d <= e
    IN  Cardinality({i \in 1 .. Len(seq) : seq[i] # usual})

\* A reversal passes the duration of the stroke it ends to updateStats.
RecordStroke ==
    \E duration \in StrokeDurations :
        LET accepted == IF duration < MIN_STROKE THEN strokes.accepted
                        ELSE Append(strokes.accepted, duration)
        IN  /\ Len(accepted) <= MaxRecorded
            /\ Varied(accepted) <= MaxVaried
            /\ stats' = updateStats(stats, duration)
            /\ strokes' = [offered |-> duration, accepted |-> accepted]
            /\ UNCHANGED <<currentMode, cycleDirection, gpo1, gpo2,
                           isEstopActive, inputA, inputB, inputC, inputD,
                           lastEndStopIn, lastEndStopOut, lastCycleAge,
                           cycleStartAge, cycleTimeout, timeoutEnabled, flash,
                           writes, errorLine, ran, raw, http, update, status,
                           edges, snapshot>>

NextStats == RecordStroke

\* The stroke statistics alone, over a history longer than the buffer.
SpecStats == Init /\ [][NextStats]_vars

\* Pin levels read by loop() in SpecNet and SpecStatus: manual-extend, start-auto and end
\* stop OUT change, the other buttons are released, end stop IN is clear.
NetPins == {p \in PinLevels : p.b = HIGH /\ p.d = HIGH /\ p.esIn = LOW}

\* One call of loop().  ArduinoOTA.handle(), at the head of loop(), does not
\* return while an ArduinoOTA update is running.
NetTick ==
    /\ update # "ota"
    /\ \E dt \in Steps, in \in NetPins :
           LET e == Elapse(State, dt)
           IN  \E r \in {Settle(loop(e, in))} :
                   /\ r.stats # e.stats =>
                          e.cycleStartAge < CycleCap /\ r.stats.cycleCount <= MaxStrokes
                   /\ Becomes(r)
    /\ UNCHANGED <<raw, http, strokes, update, status, edges, snapshot>>

\* GET /status and the WebSocket connect event: getStatusJson reads the state.
StatusRequest ==
    /\ Becomes([Elapse(State, 0) EXCEPT !.ran = "status"])
    /\ UNCHANGED <<raw, http, strokes, update, status, edges, snapshot>>

WsConnect ==
    /\ Becomes([Elapse(State, 0) EXCEPT !.ran = "ws"])
    /\ UNCHANGED <<raw, http, strokes, update, status, edges, snapshot>>

\* An ArduinoOTA update starts: the onStart callback runs.
OtaBegin ==
    /\ update = "none"
    /\ Becomes(otaOnStart(State))
    /\ update' = "ota"
    /\ UNCHANGED <<raw, http, strokes, status, edges, snapshot>>

\* It ends: with an error, and loop() goes on, or with a restart.
OtaEnd ==
    /\ update = "ota"
    /\ update' = "none"
    /\ \/ Becomes([Elapse(State, 0) EXCEPT !.ran = "ota error"])
       \/ Becomes(Settle(setup(flash)))
    /\ UNCHANGED <<raw, http, strokes, status, edges, snapshot>>

\* The first chunk of a POST /update upload: Update.begin().
UploadBegin ==
    /\ update = "none"
    /\ Becomes([Elapse(State, 0) EXCEPT !.ran = "upload"])
    /\ update' = "http"
    /\ UNCHANGED <<raw, http, strokes, status, edges, snapshot>>

\* The request handler of POST /update: ESP.restart() unless the update
\* has failed.
UploadEnd ==
    /\ update = "http"
    /\ update' = "none"
    /\ \/ Becomes([Elapse(State, 0) EXCEPT !.ran = "upload error"])
       \/ Becomes(Settle(setup(flash)))
    /\ UNCHANGED <<raw, http, strokes, status, edges, snapshot>>

NextNet ==
    \/ NetTick \/ SaveSettings \/ SetWiFi \/ StatusRequest \/ WsConnect
    \/ OtaBegin \/ OtaEnd \/ UploadBegin \/ UploadEnd

\* The control loop with every network request and both kinds of update.
SpecNet == Init /\ [][NextNet]_vars

\* One call of loop() with its status broadcasts.
StatusTick ==
    /\ \E dt \in Steps, in \in NetPins :
           LET e == Elapse(State, dt)
               st == [status EXCEPT !.lastStatusAge = Min(@ + dt, StatusCap),
                                    !.sinceSent = Min(@ + dt, StatusCap)]
           IN  \E r \in {Settle(loop(e, in))} :
                   /\ r.stats # e.stats =>
                          e.cycleStartAge < CycleCap /\ r.stats.cycleCount <= MaxStrokes
                   /\ Becomes(r)
                   /\ status' = loopStatus(e, in, st)
    /\ UNCHANGED <<raw, http, strokes, update, edges, snapshot>>

NextStatus == StatusTick

\* The control loop with the status broadcasts followed.
SpecStatus == Init /\ [][NextStatus]_vars

\* Pin levels read by loop() in SpecStroke: start-auto and the end stops
\* change, the e-stop is closed and the other buttons are released.
StrokePins ==
    {p \in PinLevels : p.estop = LOW /\ p.a = HIGH /\ p.b = HIGH /\ p.d = HIGH}

\* The duration one call of loop() passes to updateStats: the time since the
\* cycle start less the quiescent delay, at a reversal made more than
\* CYCLE_DELAY after the cycle start; 0 when the call does not reach
\* updateStats.
strokeOffered(s, in) ==
    LET s3 == StopAuto(StartAuto(ReadInputs(EstopReleased(s), in)))
        endStopIn == (in.esIn = HIGH)
        endStopOut == (in.esOut = HIGH)
    IN  IF /\ in.estop = LOW
           /\ s3.currentMode = MODE_AUTO_LOOP
           /\ ~(endStopIn /\ endStopOut)
           /\ ~(s3.timeoutEnabled /\ s3.cycleStartAge > s3.cycleTimeout)
           /\ \/ s3.cycleDirection = CYCLE_IN /\ endStopIn
              \/ s3.cycleDirection = CYCLE_OUT /\ endStopOut
           /\ s3.cycleStartAge > CYCLE_DELAY
        THEN s3.cycleStartAge - CYCLE_DELAY
        ELSE 0

\* One call of loop(), with strokes that end around the noise floor.
StrokeTick ==
    /\ \E dt \in StrokeSteps, in \in StrokePins :
           LET e == Elapse(State, dt)
           IN  \E r \in {Settle(loop(e, in))} :
                   /\ r.stats # e.stats =>
                          e.cycleStartAge < CycleCap /\ r.stats.cycleCount <= MaxStrokes
                   /\ Becomes(r)
                   /\ strokes' = [offered |-> strokeOffered(e, in),
                                  accepted |-> IF r.stats # e.stats
                                               THEN Append(strokes.accepted,
                                                           strokeOffered(e, in))
                                               ELSE strokes.accepted]
    /\ UNCHANGED <<raw, http, update, status, edges, snapshot>>

NextStroke == StrokeTick

\* The AUTO cycle with stroke durations on either side of the noise floor.
SpecStroke == Init /\ [][NextStroke]_vars

\* Pin levels read by loop() in SpecSnapshot: the e-stop and the two manual
\* inputs change, the other buttons are released, no end stop is triggered.
SnapshotPins ==
    {p \in PinLevels : p.c = HIGH /\ p.d = HIGH /\ p.esIn = LOW /\ p.esOut = LOW}

\* One call of loop(), in the loop task.
SnapshotTick ==
    /\ \E dt \in Steps, in \in SnapshotPins :
           Becomes(Settle(loop(Elapse(State, dt), in)))
    /\ UNCHANGED <<raw, http, strokes, update, status, edges, snapshot>>

\* getStatusJson, called by the GET /status handler or the WebSocket connect
\* handler in the task of the web server, reads GPO1_PIN,
SnapshotBegin ==
    /\ snapshot.at # "gpo1"
    /\ \E by \in {"status", "ws"} :
           snapshot' = [at |-> "gpo1", by |-> by, gpo1 |-> gpo1, gpo2 |-> LOW]
    /\ Becomes(State)
    /\ UNCHANGED <<raw, http, strokes, update, status, edges>>

\* and then GPO2_PIN; loop() can run between the two reads.
SnapshotEnd ==
    /\ snapshot.at = "gpo1"
    /\ snapshot' = [snapshot EXCEPT !.at = "done", !.gpo2 = gpo2]
    /\ Becomes(State)
    /\ UNCHANGED <<raw, http, strokes, update, status, edges>>

NextSnapshot == SnapshotTick \/ SnapshotBegin \/ SnapshotEnd

\* The control loop in MANUAL with status snapshots built concurrently.
SpecSnapshot == Init /\ [][NextSnapshot]_vars

\* A /save request between two calls of loop(), with its response recorded.
SaveTimeout ==
    \E hasTimeout \in BOOLEAN, timeout \in TimeoutArgs, hasEnabled \in BOOLEAN :
        /\ Becomes(handleSaveSettings(State, hasTimeout, timeout, hasEnabled))
        /\ http' = [status |-> saveStatus(hasTimeout, timeout),
                    hasTimeout |-> hasTimeout, timeout |-> timeout,
                    hasEnabled |-> hasEnabled]
        /\ UNCHANGED <<raw, strokes, update, status, edges, snapshot>>

NextSwitch == StrokeTick \/ SaveTimeout

\* The AUTO cycle with /save requests that switch the timeout on and off.
SpecSwitch == Init /\ [][NextSwitch]_vars

NextOta == Tick \/ SaveSettings \/ SetWiFi \/ OtaStart

\* The same with OTA updates starting (and failing) between calls of loop().
SpecOta == Init /\ [][NextOta]_vars

---------------------------------------------------------------------------
(* Vocabulary of the properties *)

OutputsOff == gpo1 = LOW /\ gpo2 = LOW

BothEndStops == lastEndStopIn = HIGH /\ lastEndStopOut = HIGH

\* The pin levels the latest call of loop() sampled.  (A call that found the
\* e-stop open sampled the e-stop alone.)
SampledPins ==
    [estop |-> isEstopActive,
     a |-> inputA.lastState, b |-> inputB.lastState,
     c |-> inputC.lastState, d |-> inputD.lastState,
     esIn |-> lastEndStopIn, esOut |-> lastEndStopOut]

\* The step is a call of loop().
TickStep ==
    /\ ran' \in {"estop", "manual", "auto"}
    /\ UNCHANGED <<cycleTimeout, timeoutEnabled>>

\* The step is the call of loop() made dt after the previous one.
TickOf(dt) ==
    \E r \in {Settle(loop(Elapse(State, dt), SampledPins'))} : Becomes(r)

\* Some instant of the write sequence ws, started with the outputs at g1 and
\* g2, has both outputs HIGH.
RECURSIVE Overlaps(_, _, _)
Overlaps(g1, g2, ws) ==
    IF ws = <<>> THEN FALSE
    ELSE LET w == Head(ws)
             n1 == IF w[1] = "GPO1_PIN" THEN w[2] ELSE g1
             n2 == IF w[1] = "GPO2_PIN" THEN w[2] ELSE g2
         IN  (n1 = HIGH /\ n2 = HIGH) \/ Overlaps(n1, n2, Tail(ws))

\* Some instant of the write sequence ws, started with the outputs at g1 and
\* g2, has both outputs LOW.
RECURSIVE PassesOff(_, _, _)
PassesOff(g1, g2, ws) ==
    IF ws = <<>> THEN FALSE
    ELSE LET w == Head(ws)
             n1 == IF w[1] = "GPO1_PIN" THEN w[2] ELSE g1
             n2 == IF w[1] = "GPO2_PIN" THEN w[2] ELSE g2
         IN  (n1 = LOW /\ n2 = LOW) \/ PassesOff(n1, n2, Tail(ws))

\* The step ends with the output on that was off, the other one having been on.
SwitchesOver ==
    \/ gpo1 = HIGH /\ gpo2' = HIGH
    \/ gpo2 = HIGH /\ gpo1' = HIGH

---------------------------------------------------------------------------
(* Properties *)

\* C1: the two outputs are never both HIGH, neither at the end of a step (a
\* call of loop(), an OTA start, a settings request) nor between two pin
\* writes of a step.
C1_NeverBothOn ==
    /\ [](~(gpo1 = HIGH /\ gpo2 = HIGH))
    /\ [][~Overlaps(gpo1, gpo2, writes')]_vars

\* A manual override took the system out of AUTO and switched the retract
\* output on in the same call.
C1_Witness == ran = "manual" /\ gpo1 = HIGH /\ Len(writes) = 4

\* C2: a call of loop() that reads the e-stop open ends with both outputs
\* off, mode MANUAL and direction STOPPED.
C2_EstopPriority ==
    ran = "estop" =>
        /\ isEstopActive
        /\ OutputsOff
        /\ currentMode = MODE_MANUAL
        /\ cycleDirection = CYCLE_STOPPED

\* The e-stop opened while a start-auto press was being debounced.
C2_Witness ==
    ran = "estop" /\ inputC.lastState = LOW /\ inputC.currentState = HIGH

C4_DualEndStopAuto ==
    (ran = "auto" /\ BothEndStops) =>
        /\ currentMode = MODE_MANUAL
        /\ cycleDirection = CYCLE_STOPPED
        /\ OutputsOff

\* The AUTO handler has shut down on the dual end-stop fault.
C4_Witness ==
    /\ errorLine = "ERROR: Both end stops triggered!"
    /\ ran = "auto"
    /\ BothEndStops

\* C5: a call of loop() that finds the e-stop closed and both end stops
\* triggered ends in MANUAL with both outputs off, in whichever mode it
\* started and whatever the buttons read.
C5_DualEndStopAnyMode ==
    (ran \in {"manual", "auto"} /\ BothEndStops) =>
        (currentMode = MODE_MANUAL /\ OutputsOff)

\* The manual handler ran with both end stops triggered and manual-extend
\* alone pressed.
C5_Witness ==
    /\ ran = "manual"
    /\ BothEndStops
    /\ inputA.lastState = LOW
    /\ inputB.lastState = HIGH

\* C6 as claimed: a call of loop() that finds the e-stop closed and both end
\* stops triggered ends with direction STOPPED.
C6_DualEndStopStopped ==
    (ran \in {"manual", "auto"} /\ BothEndStops) => cycleDirection = CYCLE_STOPPED

\* C7: the mode goes from MANUAL to AUTO only in a call of loop() that finds
\* the e-stop closed and in which the stable level of input C goes from
\* released to pressed; the press flag is consumed by that call.
C7_AutoOnlyOnStartEdge ==
    [][(currentMode = MODE_MANUAL /\ currentMode' = MODE_AUTO_LOOP) =>
          /\ ran' = "auto"
          /\ ~isEstopActive'
          /\ inputC.currentState = HIGH
          /\ inputC'.currentState = LOW
          /\ inputC'.lastState = LOW
          /\ ~inputC'.pressed]_vars

\* AUTO was entered again after a stroke had been recorded.
C7_Witness ==
    /\ currentMode = MODE_AUTO_LOOP
    /\ lastCycleAge = 0
    /\ cycleDirection = CYCLE_IN
    /\ inputC.currentState = LOW
    /\ inputC.lastState = LOW
    /\ stats.cycleCount = 1

\* C8 as claimed: the call of loop() that detects the e-stop release ends in
\* MANUAL.
C8_ReleaseStaysManual ==
    [][(isEstopActive /\ ~isEstopActive') => currentMode' = MODE_MANUAL]_vars

\* C9 as claimed: no call of loop() ends with one output on when the call
\* before it ended with the other one on.
C9_OffTickBetween == [][TickStep => ~SwitchesOver]_vars

\* C9 amended: a call of loop() that ends with one output on right after the
\* other one was on ends in MANUAL, and both outputs are off between its pin
\* writes.
C9_OffBeforeOn ==
    [][(TickStep /\ SwitchesOver) =>
          /\ currentMode' = MODE_MANUAL
          /\ ran' = "manual"
          /\ PassesOff(gpo1, gpo2, writes')
          /\ ~Overlaps(gpo1, gpo2, writes')]_vars

\* The manual handler switched the retract output on with two writes.
C9_Witness ==
    /\ ran = "manual"
    /\ gpo1 = HIGH
    /\ writes = <<<<"GPO2_PIN", LOW>>, <<"GPO1_PIN", HIGH>>>>

\* C10 as claimed: a call of loop() that changes the mode or the direction
\* ends with both outputs off.
C10_OffAfterAnyChange ==
    [][(TickStep /\ (currentMode' # currentMode \/ cycleDirection' # cycleDirection))
          => OutputsOff']_vars

\* Exactly one manual-direction input read pressed in the latest call.
OneManualInput == (inputA.lastState = LOW) # (inputB.lastState = LOW)

\* C10 amended: the same, unless the call runs the manual handler with
\* exactly one manual-direction input pressed.
C10_OffAfterChange ==
    [][(/\ TickStep
        /\ (currentMode' # currentMode \/ cycleDirection' # cycleDirection)
        /\ ~(ran' = "manual" /\ OneManualInput'))
          => OutputsOff']_vars

\* A call of loop() has just entered AUTO or reversed: the reversal timer is
\* restarted and both outputs are off.
C10_Witness ==
    /\ ran = "auto"
    /\ currentMode = MODE_AUTO_LOOP
    /\ lastCycleAge = 0
    /\ OutputsOff

---------------------------------------------------------------------------
(* Mode changes, reversal and the output functions *)

\* The step raises the debounced press edge of a button that takes the
\* system out of AUTO.
ExitEdge ==
    \/ inputD.currentState = HIGH /\ inputD'.currentState = LOW
    \/ inputA.currentState = HIGH /\ inputA'.currentState = LOW
    \/ inputB.currentState = HIGH /\ inputB'.currentState = LOW

\* The call of loop() made dt after the previous one starts in AUTO with the
\* timeout exceeded.
TimeoutOn(dt) ==
    /\ currentMode = MODE_AUTO_LOOP
    /\ timeoutEnabled
    /\ Elapse(State, dt).cycleStartAge > cycleTimeout

\* The step is a call of loop() that finds the timeout exceeded, whatever
\* time passed since the previous call.
TimedOut == \A dt \in Steps : TickOf(dt) => TimeoutOn(dt)

\* C14: a call of loop() that starts in AUTO and finds the e-stop closed ends
\* in MANUAL when it detects a debounced press edge of stop-auto,
\* manual-extend or manual-retract, and ends in AUTO when it detects none of
\* them and no fault.
C14_AutoExitTriggers ==
    [][(TickStep /\ currentMode = MODE_AUTO_LOOP /\ ~isEstopActive') =>
          /\ ExitEdge => currentMode' = MODE_MANUAL
          /\ (~ExitEdge /\ ~BothEndStops' /\ currentMode' # MODE_AUTO_LOOP)
                 => TimedOut]_vars

\* AUTO was left on a press of manual-retract.
C14_Witness ==
    /\ ran = "manual"
    /\ Len(writes) = 4
    /\ inputB.pressed
    /\ inputB.lastState = LOW
    /\ inputD.currentState = HIGH

\* The step is a call of loop() that leaves AUTO on a stop-auto press or a
\* manual override.
CommandedExit ==
    /\ TickStep
    /\ currentMode = MODE_AUTO_LOOP
    /\ currentMode' = MODE_MANUAL
    /\ ran' = "manual"

\* C15 as claimed: a commanded AUTO exit ends with both outputs off and the
\* direction it started with.
C15_ExitOffAndRetained ==
    [][CommandedExit => (OutputsOff' /\ cycleDirection' = cycleDirection)]_vars

\* C15 amended: a commanded AUTO exit first writes both outputs off; it ends
\* with both outputs off unless exactly one manual input reads pressed, and
\* with the direction it started with unless that or a triggered end stop
\* lets the manual handler set the direction.
C15_ExitOffThenManual ==
    [][CommandedExit =>
          /\ Len(writes') >= 2
          /\ SubSeq(writes', 1, 2) = <<<<"GPO1_PIN", LOW>>, <<"GPO2_PIN", LOW>>>>
          /\ ~OneManualInput' => OutputsOff'
          /\ (~OneManualInput' /\ lastEndStopIn' = LOW /\ lastEndStopOut' = LOW)
                 => cycleDirection' = cycleDirection]_vars

\* AUTO was left in direction IN on a stop-auto press with nothing else
\* pressed and no end stop triggered.
C15_Witness ==
    /\ ran = "manual"
    /\ Len(writes) = 4
    /\ cycleDirection = CYCLE_IN
    /\ inputD.currentState = LOW
    /\ inputA.lastState = HIGH
    /\ inputB.lastState = HIGH
    /\ lastEndStopIn = LOW
    /\ lastEndStopOut = LOW
    /\ OutputsOff

\* The direction the AUTO handler starts with: a call that enters AUTO from
\* STOPPED resumes with OUT.
ResumedDirection ==
    IF currentMode = MODE_MANUAL /\ cycleDirection = CYCLE_STOPPED
    THEN CYCLE_OUT
    ELSE cycleDirection

ReversalRule(d, endStopIn, endStopOut) ==
    IF d = CYCLE_IN /\ endStopIn = HIGH THEN CYCLE_OUT
    ELSE IF d = CYCLE_OUT /\ endStopOut = HIGH THEN CYCLE_IN
    ELSE d

\* C16: a call of loop() that runs the AUTO handler without a fault turns IN
\* into OUT when end stop IN is triggered, OUT into IN when end stop OUT is
\* triggered, and leaves the direction alone otherwise; the direction is IN
\* or OUT before and after.
C16_ReversalRule ==
    [][(TickStep /\ ran' = "auto" /\ ~BothEndStops') =>
          /\ ResumedDirection \in {CYCLE_IN, CYCLE_OUT}
          /\ cycleDirection' # ReversalRule(ResumedDirection,
                                            lastEndStopIn', lastEndStopOut')
                 => TimedOut]_vars

\* The direction is OUT right after a restart of the reversal timer with end
\* stop IN triggered and a stroke recorded.
C16_Witness ==
    /\ ran = "auto"
    /\ currentMode = MODE_AUTO_LOOP
    /\ cycleDirection = CYCLE_OUT
    /\ lastEndStopIn = HIGH
    /\ lastCycleAge = 0
    /\ stats.cycleCount = 1
    /\ stats.lastDuration = CYCLE_DELAY

\* C17: after a call of loop() that ends in AUTO both outputs are off while
\* less than CYCLE_DELAY has passed since the last reversal or AUTO entry,
\* and from then on exactly the output of the direction is on.
C17_QuiescentThenDrive ==
    (ran = "auto" /\ currentMode = MODE_AUTO_LOOP) =>
        IF lastCycleAge < CYCLE_DELAY THEN OutputsOff
        ELSE \/ cycleDirection = CYCLE_OUT /\ gpo2 = HIGH /\ gpo1 = LOW
             \/ cycleDirection = CYCLE_IN /\ gpo1 = HIGH /\ gpo2 = LOW

\* The retract output is on exactly CYCLE_DELAY after a reversal to IN.
C17_Witness ==
    /\ ran = "auto"
    /\ currentMode = MODE_AUTO_LOOP
    /\ cycleDirection = CYCLE_IN
    /\ lastCycleAge = CYCLE_DELAY
    /\ gpo1 = HIGH
    /\ stats.cycleCount = 1

\* The outputs as the manual inputs and end stops of the latest call of
\* loop() determine them.
ManualDrive ==
    LET extend == /\ inputA.lastState = LOW
                  /\ inputB.lastState = HIGH
                  /\ lastEndStopOut = LOW
        retract == /\ inputB.lastState = LOW
                   /\ inputA.lastState = HIGH
                   /\ lastEndStopIn = LOW
    IN  (gpo2 = HIGH) = extend /\ (gpo1 = HIGH) = retract

\* C18 as claimed: after every call of loop() that finds the e-stop closed
\* and ends in MANUAL the outputs are those the manual inputs and end stops
\* determine.
C18_EveryManualEnd ==
    (ran \in {"manual", "auto"} /\ currentMode = MODE_MANUAL) => ManualDrive

\* C18 amended: the same after every call of loop() that runs the manual
\* handler, that is, every call ending in MANUAL except the one that shuts
\* AUTO down on a fault.
C18_ManualOutputs == ran = "manual" => ManualDrive

\* Both manual inputs read pressed and both outputs are off.
C18_Witness ==
    /\ ran = "manual"
    /\ inputA.lastState = LOW
    /\ inputB.lastState = LOW
    /\ OutputsOff

\* C19 as claimed: in manual mode Button A alone turns GPO1 on and Button B
\* alone turns GPO2 on (no end stop triggered).
C19_DocumentedWiring ==
    (ran = "manual" /\ lastEndStopIn = LOW /\ lastEndStopOut = LOW) =>
        /\ (inputA.lastState = LOW /\ inputB.lastState = HIGH) => gpo1 = HIGH
        /\ (inputB.lastState = LOW /\ inputA.lastState = HIGH) => gpo2 = HIGH

---------------------------------------------------------------------------
(* Settings validation *)

IsDigits(str) == str # <<>> /\ \A i \in 1 .. Len(str) : str[i] \in DOMAIN Digit

\* str is written as a number within the accepted range.
NumberInRange(str) ==
    /\ IsDigits(str)
    /\ Digits(str, 0) >= MIN_CYCLE_TIMEOUT
    /\ Digits(str, 0) <= MAX_CYCLE_TIMEOUT

\* str begins, after blanks and an optional plus sign, with a number within
\* the accepted range that no digit follows.
LeadsWithNumberInRange(str) ==
    \E first \in 1 .. Len(str), last \in 1 .. Len(str) :
        /\ first <= last
        /\ \/ \A i \in 1 .. first - 1 : str[i] = " "
           \/ /\ first >= 2
              /\ str[first - 1] = "+"
              /\ \A i \in 1 .. first - 2 : str[i] = " "
        /\ NumberInRange(SubSeq(str, first, last))
        /\ last = Len(str) \/ str[last + 1] \notin DOMAIN Digit

\* The number str begins with.
LeadingNumber(str) ==
    LET first == CHOOSE i \in 1 .. Len(str) : str[i] \in DOMAIN Digit
    IN  Digits(SubSeq(str, first, Len(str)), 0)

\* The step is a /save request carrying a timeout argument.
SaveStep == http' # http /\ http'.status # 0 /\ http'.hasTimeout

SettingsUnchanged == UNCHANGED <<cycleTimeout, timeoutEnabled, flash>>

\* C20 as claimed: a /save request whose timeout is not a number within
\* [1000, 300000] is answered with an error and changes neither the settings
\* nor the flash; one whose timeout is such a number is accepted and sets
\* cycleTimeout to it.
C20_RejectsAllButNumbers ==
    [][SaveStep =>
          IF NumberInRange(http'.timeout)
          THEN http'.status = 200 /\ cycleTimeout' = Digits(http'.timeout, 0)
          ELSE http'.status = 400 /\ SettingsUnchanged]_vars

\* C20 amended: the timeout argument counts as the number it begins with
\* (String::toInt); the request is accepted, and cycleTimeout and the flash
\* are set to that number, exactly when it lies within [1000, 300000], and
\* is answered with an error and changes nothing otherwise.
C20_Validation ==
    [][SaveStep =>
          IF LeadsWithNumberInRange(http'.timeout)
          THEN /\ http'.status = 200
               /\ cycleTimeout' = LeadingNumber(http'.timeout)
               /\ timeoutEnabled' = http'.hasEnabled
               /\ flash' = [cycleTimeout |-> cycleTimeout',
                            timeoutEnabled |-> timeoutEnabled']
          ELSE http'.status = 400 /\ SettingsUnchanged]_vars

\* A timeout of 500 was rejected and the timeout of 30000 set before it is
\* still in force.
C20_Witness ==
    /\ http.status = 400
    /\ http.timeout = <<"5", "0", "0">>
    /\ http.hasEnabled
    /\ cycleTimeout = 30000
    /\ ~timeoutEnabled
    /\ flash = [cycleTimeout |-> 30000, timeoutEnabled |-> FALSE]

---------------------------------------------------------------------------
(* Debouncing against the signals on the pins (SpecFine) *)

\* The step is a call of loop() that finds the e-stop closed.
SampleStep == ran' \in {"manual", "auto"}

\* C11 as claimed: the stable level of a command channel changes only when
\* the signal on its pin has kept its level for the full debounce window,
\* however the calls of loop() are spaced (so that a signal changing more
\* often never changes it).
C11_OnlyAfterFullWindow ==
    [][/\ inputA'.currentState # inputA.currentState
              => raw.a.age >= DEBOUNCE_DELAY
       /\ inputC'.currentState # inputC.currentState
              => raw.c.age >= DEBOUNCE_DELAY]_vars

\* The stable level of btn changes in the step only as the levels read by
\* the calls of loop() allow: to the level read now, which the call before
\* read as well, more than DEBOUNCE_DELAY after the call that last read a
\* change; and the press flag is raised only with a change to pressed.
DebouncedChange(btn, after, signal) ==
    /\ after.currentState # btn.currentState =>
           /\ after.lastState = signal.level
           /\ after.currentState = signal.level
           /\ btn.lastState = signal.level
           /\ btn.debounceAge > DEBOUNCE_DELAY
    /\ (after.pressed /\ ~btn.pressed) =>
           (btn.currentState = HIGH /\ after.currentState = LOW)

\* C11 amended: the stable level of a command channel changes only when the
\* calls of loop() have read the same level for more than the debounce
\* window; changes of the signal between two calls are not seen.
C11_SampledDebounce ==
    [][/\ DebouncedChange(inputA, inputA', raw.a)
       /\ DebouncedChange(inputC, inputC', raw.c)]_vars

\* Start-auto was accepted although its signal changed less than a debounce
\* window ago.
C11_Witness ==
    /\ ran = "auto"
    /\ lastCycleAge = 0
    /\ inputC.currentState = LOW
    /\ raw.c.level = LOW
    /\ raw.c.age < DEBOUNCE_DELAY

\* C12 as claimed: in MANUAL the extend output is switched on only by a
\* manual-extend signal that has been pressed for the full debounce window
\* (a shorter pulse never asserts it).
C12_PulseNeverAsserts ==
    [][(gpo2 = LOW /\ gpo2' = HIGH /\ currentMode' = MODE_MANUAL) =>
          (raw.a.level = LOW /\ raw.a.age >= DEBOUNCE_DELAY)]_vars

\* C13 as claimed: the first call of loop() that finds the e-stop closed,
\* the system in MANUAL, manual-extend released and the start-auto signal
\* pressed for more than the debounce window ends in AUTO.
C13_AutoAfterWindow ==
    [][(/\ SampleStep
        /\ currentMode = MODE_MANUAL
        /\ raw.a.level = HIGH
        /\ raw.c.level = LOW
        /\ raw.c.age > DEBOUNCE_DELAY
        /\ ~raw.c.sampledLate)
          => currentMode' = MODE_AUTO_LOOP]_vars

\* C13 amended: a call of loop() in MANUAL that finds the e-stop closed and
\* reads start-auto pressed ends in AUTO when the stable level of start-auto
\* is released, every call since one made more than DEBOUNCE_DELAY earlier
\* read it pressed, no press flag of a manual input is set, stop-auto raises
\* no press edge and not both end stops are triggered.
C13_AutoAfterSampledWindow ==
    [][(/\ SampleStep
        /\ currentMode = MODE_MANUAL
        /\ inputC.currentState = HIGH
        /\ inputC.lastState = LOW
        /\ inputC.debounceAge > DEBOUNCE_DELAY
        /\ inputC'.lastState = LOW
        /\ ~inputA'.pressed
        /\ ~inputB'.pressed
        /\ ~(inputD.currentState = HIGH /\ inputD'.currentState = LOW)
        /\ ~BothEndStops')
          => currentMode' = MODE_AUTO_LOOP]_vars

\* AUTO was entered on a start-auto signal held for more than the window.
C13_Witness ==
    /\ ran = "auto"
    /\ currentMode = MODE_AUTO_LOOP
    /\ lastCycleAge = 0
    /\ inputC.currentState = LOW
    /\ raw.c.level = LOW
    /\ raw.c.age > DEBOUNCE_DELAY
    /\ raw.a.level = HIGH

---------------------------------------------------------------------------
(* Stroke statistics (SpecStats) *)

\* The last n elements of seq.
LastOf(seq, n) == SubSeq(seq, Len(seq) - n + 1, Len(seq))

RECURSIVE SeqSum(_)
SeqSum(seq) == IF seq = <<>> THEN 0 ELSE Head(seq) + SeqSum(Tail(seq))

\* C21: after n accepted strokes the fill count is min(n, 20) and the
\* history of the status snapshot is the last min(n, 20) accepted durations,
\* oldest first; a stroke accepted into a full history evicts the oldest
\* entry and no other.
C21_RollingWindow ==
    /\ [](LET n == Len(strokes.accepted)
              k == Min(n, HISTORY_SIZE)
          IN  /\ stats.cycleCount = k
              /\ history(stats) = LastOf(strokes.accepted, k))
    /\ [][(strokes'.accepted # strokes.accepted /\ stats.cycleCount = HISTORY_SIZE)
             => history(stats') = Append(Tail(history(stats)), strokes'.offered)]_vars

\* The 21st stroke has evicted the first, the only one of 6000 ms.
C21_Witness ==
    /\ Len(strokes.accepted) = HISTORY_SIZE + 1
    /\ strokes.accepted[1] = 6000
    /\ strokes.accepted[HISTORY_SIZE + 1] = 5000
    /\ history(stats)[HISTORY_SIZE] = 5000
    /\ \A i \in 1 .. HISTORY_SIZE : history(stats)[i] # 6000

\* C22: after every accepted stroke lastDuration is the duration just
\* recorded and avgDuration is the mean, rounded down to a whole number of
\* milliseconds, of the durations in the history (the last min(n, 20)
\* accepted ones).
C22_MeanAndLast ==
    strokes.accepted # <<>> =>
        LET n == Len(strokes.accepted)
            k == Min(n, HISTORY_SIZE)
        IN  /\ stats.lastDuration = strokes.accepted[n]
            /\ stats.avgDuration = SeqSum(LastOf(strokes.accepted, k)) \div k
            /\ stats.avgDuration = SeqSum(history(stats)) \div stats.cycleCount

\* Twenty strokes of 4000 to 6000 ms average 4150 ms.
C22_Witness ==
    /\ Len(strokes.accepted) = HISTORY_SIZE
    /\ \E i, j \in 1 .. HISTORY_SIZE :
           /\ strokes.accepted[i] = 5000
           /\ strokes.accepted[j] = 6000
    /\ stats.avgDuration = 4150

---------------------------------------------------------------------------
(* Firmware updates and network requests *)

\* C23: the OTA start callback switches both outputs off and changes nothing
\* else: mode, direction, timers, debounce state, end-stop tracking,
\* statistics and configuration are as before it.
C23_OtaStartOutputsOnly ==
    [][OtaBegin =>
          /\ OutputsOff'
          /\ UNCHANGED <<currentMode, cycleDirection, isEstopActive,
                         inputA, inputB, inputC, inputD,
                         lastEndStopIn, lastEndStopOut,
                         lastCycleAge, cycleStartAge,
                         cycleTimeout, timeoutEnabled, flash, stats>>]_vars

\* An update started while AUTO was driving the retract output: the output
\* is off, mode and direction are kept.
C23_Witness ==
    /\ ran = "ota"
    /\ currentMode = MODE_AUTO_LOOP
    /\ cycleDirection = CYCLE_IN
    /\ lastCycleAge >= CYCLE_DELAY
    /\ OutputsOff
    /\ writes = <<<<"GPO1_PIN", LOW>>, <<"GPO2_PIN", LOW>>>>

\* C24 as claimed: while a firmware update is running, received through
\* ArduinoOTA or through POST /update, both outputs are off.
C24_OffDuringUpdate == update # "none" => OutputsOff

\* The step is a network request: /save, /setwifi, /status, a WebSocket
\* event, or a chunk or the end of a /update upload.
NetworkStep ==
    \/ SaveSettings \/ SetWiFi \/ StatusRequest \/ WsConnect
    \/ UploadBegin \/ UploadEnd

\* The step restarts the controller.
Restarts == ran' = "setup"

ControlUnchanged ==
    UNCHANGED <<currentMode, cycleDirection, gpo1, gpo2, isEstopActive,
                inputA, inputB, inputC, inputD, lastEndStopIn, lastEndStopOut,
                lastCycleAge, cycleStartAge, stats>>

\* C25 as claimed: no network request switches an output on, sets the mode
\* to AUTO or changes the direction; it changes the configuration at most.
C25_ConfigurationOnly == [][NetworkStep => ControlUnchanged]_vars

\* C25 amended: no network request switches an output on or sets the mode
\* to AUTO.  A request that does not restart the controller changes the
\* configuration at most; /setwifi and a successful /update restart it, and
\* it is then as setup() leaves it: MANUAL, STOPPED, both outputs off,
\* statistics empty.
C25_NoMotionCommand ==
    [][NetworkStep =>
          /\ gpo1' = HIGH => gpo1 = HIGH
          /\ gpo2' = HIGH => gpo2 = HIGH
          /\ currentMode' = MODE_AUTO_LOOP => currentMode = MODE_AUTO_LOOP
          /\ IF Restarts
             THEN /\ currentMode' = MODE_MANUAL
                  /\ cycleDirection' = CYCLE_STOPPED
                  /\ OutputsOff'
                  /\ stats' = NoStats
             ELSE ControlUnchanged]_vars

\* A WebSocket client connected while AUTO was driving the extend output:
\* the output stays on.
C25_Witness ==
    /\ ran = "ws"
    /\ currentMode = MODE_AUTO_LOOP
    /\ cycleDirection = CYCLE_OUT
    /\ gpo2 = HIGH

\* C26 as claimed, the minimum rate: a call of loop() that does not
\* broadcast a status snapshot is made at most a second after the latest
\* broadcast, with the e-stop open or closed.
C26_PublishedEverySecond ==
    (ran \in {"estop", "manual", "auto"} /\ status.sent = 0) =>
        status.sinceSent <= STATUS_UPDATE_INTERVAL

---------------------------------------------------------------------------
(* Start state, AUTO entry, pre-steering and stroke durations *)

Released(btn) == btn.lastState = HIGH /\ btn.currentState = HIGH /\ ~btn.pressed

\* C27: when setup() has run and loop() has not yet been called the mode is
\* MANUAL, the direction STOPPED, both outputs are off, the four buttons are
\* released with no press pending, the e-stop flag is false and the
\* statistics are empty.
C27_InitialState ==
    ran = "setup" =>
        /\ currentMode = MODE_MANUAL
        /\ cycleDirection = CYCLE_STOPPED
        /\ OutputsOff
        /\ Released(inputA) /\ Released(inputB)
        /\ Released(inputC) /\ Released(inputD)
        /\ ~isEstopActive
        /\ stats.cycleCount = 0
        /\ stats.lastDuration = 0
        /\ stats.avgDuration = 0
        /\ history(stats) = <<>>

\* The controller has started with the timeout switched off in the flash.
C27_Witness ==
    /\ ran = "setup"
    /\ writes = <<<<"GPO1_PIN", LOW>>, <<"GPO2_PIN", LOW>>>>
    /\ ~timeoutEnabled
    /\ ~flash.timeoutEnabled

\* The step is a call of loop() that takes the system from MANUAL to AUTO.
EntersAuto ==
    TickStep /\ currentMode = MODE_MANUAL /\ currentMode' = MODE_AUTO_LOOP

\* C28 as claimed: a call of loop() that enters AUTO ends with direction OUT
\* if the direction was STOPPED and with the direction recorded before
\* otherwise, and with both timers restarted.
C28_EntryKeepsDirection ==
    [][EntersAuto =>
          /\ cycleDirection' = ResumedDirection
          /\ lastCycleAge' = 0
          /\ cycleStartAge' = 0]_vars

\* C28 amended: the entry resumes that direction and restarts both timers;
\* the AUTO handler runs in the same call and reverses the resumed direction
\* at once when its end stop reads triggered.
C28_EntryDirection ==
    [][EntersAuto =>
          /\ cycleDirection' = ReversalRule(ResumedDirection,
                                            lastEndStopIn', lastEndStopOut')
          /\ lastCycleAge' = 0
          /\ cycleStartAge' = 0]_vars

\* AUTO was entered in the recorded direction IN: no end stop is triggered,
\* so the direction does not come from a reversal.
C28_Witness ==
    /\ ran = "auto"
    /\ currentMode = MODE_AUTO_LOOP
    /\ cycleDirection = CYCLE_IN
    /\ lastCycleAge = 0
    /\ cycleStartAge = 0
    /\ lastEndStopIn = LOW
    /\ lastEndStopOut = LOW

\* The direction points away from the end stop that reads triggered.
PreSteered ==
    /\ lastEndStopIn = HIGH => cycleDirection = CYCLE_OUT
    /\ (lastEndStopOut = HIGH /\ lastEndStopIn = LOW) => cycleDirection = CYCLE_IN

AwayFromEndStop ==
    /\ (lastEndStopIn = HIGH /\ lastEndStopOut = LOW) => cycleDirection = CYCLE_OUT
    /\ (lastEndStopOut = HIGH /\ lastEndStopIn = LOW) => cycleDirection = CYCLE_IN

ReversalStep ==
    /\ ran' = "auto"
    /\ currentMode' = MODE_AUTO_LOOP
    /\ cycleDirection' # ResumedDirection

\* C30: a reversal made e after the cycle start records e - CYCLE_DELAY as a
\* stroke when e > CYCLE_DELAY and the stroke is not below the noise floor,
\* records nothing otherwise, and restarts both timers.
C30_StrokeAtReversal ==
    [][ReversalStep =>
          \A dt \in StrokeSteps :
              TickOf(dt) =>
                  LET e == IF currentMode = MODE_AUTO_LOOP
                           THEN Elapse(State, dt).cycleStartAge
                           ELSE 0
                      stroke == e - CYCLE_DELAY
                  IN  /\ lastCycleAge' = 0
                      /\ cycleStartAge' = 0
                      /\ IF e > CYCLE_DELAY /\ stroke >= MIN_STROKE
                         THEN /\ stats'.lastDuration = stroke
                              /\ stats'.cycleCount = stats.cycleCount + 1
                              /\ history(stats') = Append(history(stats), stroke)
                         ELSE stats' = stats]_vars

\* A reversal 600 ms after the cycle start has recorded a stroke of 100 ms.
C30_Witness ==
    /\ ran = "auto"
    /\ currentMode = MODE_AUTO_LOOP
    /\ lastCycleAge = 0
    /\ stats.cycleCount = 1
    /\ stats.lastDuration = MIN_STROKE

---------------------------------------------------------------------------
(* Noise floor of the statistics *)

\* C31: a stroke duration below MIN_STROKE passed to updateStats leaves the
\* whole statistics state as it was (history slots, write index, fill count,
\* lastDuration, avgDuration); a duration of MIN_STROKE or more is written
\* into the slot at the write index, moves the write index on, and becomes
\* lastDuration.
C31_NoiseFloor ==
    [][strokes'.offered > 0 =>
          IF strokes'.offered < MIN_STROKE
          THEN stats' = stats
          ELSE /\ stats'.cycleDurations =
                      [stats.cycleDurations EXCEPT ![stats.cycleIndex] = strokes'.offered]
               /\ stats'.cycleIndex = (stats.cycleIndex + 1) % HISTORY_SIZE
               /\ stats'.cycleCount = Min(stats.cycleCount + 1, HISTORY_SIZE)
               /\ stats'.lastDuration = strokes'.offered
               /\ strokes'.accepted = Append(strokes.accepted, strokes'.offered)]_vars

\* A stroke of 99 ms was dropped after a stroke had been recorded.
C31_Witness ==
    /\ strokes.offered = MIN_STROKE - 1
    /\ stats.cycleCount = 1
    /\ stats.lastDuration = MIN_STROKE
    /\ strokes.accepted = <<MIN_STROKE>>

---------------------------------------------------------------------------
(* Press edges *)

\* C32: a call of loop() raises the press edge of a channel exactly when the
\* debounced level of the channel goes from released to pressed in that call
\* (so a button that is kept held raises no further edge), and a channel
\* raises a press edge only when more than DEBOUNCE_DELAY has passed since
\* its previous one.
C32_EdgeRate ==
    [][ran' \in {"estop", "manual", "auto"} =>
          /\ edges'.a.raised
                 <=> (inputA.currentState = HIGH /\ inputA'.currentState = LOW)
          /\ edges'.c.raised
                 <=> (inputC.currentState = HIGH /\ inputC'.currentState = LOW)
          /\ edges'.a.raised => edges.a.age > DEBOUNCE_DELAY
          /\ edges'.c.raised => edges.c.age > DEBOUNCE_DELAY
          /\ (inputA.currentState = LOW /\ inputA'.currentState = LOW)
                 => inputA'.pressed /\ ~edges'.a.raised]_vars

\* INPUT_C has been held for longer than the debounce window after its press
\* edge, and the latest call of loop() read it pressed and raised no edge.
C32_Witness ==
    /\ ran = "auto"
    /\ inputC.currentState = LOW
    /\ raw.c.level = LOW
    /\ raw.c.age = RawCap
    /\ edges.c.age = RawCap
    /\ ~edges.c.raised

---------------------------------------------------------------------------
(* Frame of an emergency-stop tick *)

\* C33: a call of loop() that reads the e-stop open leaves the debounce state
\* of the four command channels (last raw level, stable level, change
\* timestamp, press flag), the cycle-start and reversal timestamps, the end
\* stop levels last read, the stroke statistics and the configuration as they
\* were; it changes the outputs, the mode, the direction and the e-stop flag
\* only.  (A timestamp that is unchanged is an age that has grown by the
\* time since the previous call, whatever that time was.)
C33_EstopAborts ==
    [][(ran' = "estop" /\ TickStep) =>
          LET kept(was, is) ==
                  /\ is.lastState = was.lastState
                  /\ is.currentState = was.currentState
                  /\ is.pressed = was.pressed
          IN  /\ kept(inputA, inputA') /\ kept(inputB, inputB')
              /\ kept(inputC, inputC') /\ kept(inputD, inputD')
              /\ stats' = stats
              /\ UNCHANGED <<lastEndStopIn, lastEndStopOut,
                             cycleTimeout, timeoutEnabled, flash>>
              /\ \A dt \in Steps :
                     LET e == Elapse(State, dt)
                         r == loop(e, SampledPins')
                     IN  /\ r.inputA = e.inputA /\ r.inputB = e.inputB
                         /\ r.inputC = e.inputC /\ r.inputD = e.inputD
                         /\ r.lastCycleAge = e.lastCycleAge
                         /\ r.cycleStartAge = e.cycleStartAge]_vars

\* An e-stop tick with the press flag of manual-extend set, a
\* level change of start-auto waiting for its debounce window, and a stroke
\* in the statistics.
C33_Witness ==
    /\ ran = "estop"
    /\ inputA.pressed
    /\ inputC.lastState # inputC.currentState
    /\ stats.cycleCount = 1

---------------------------------------------------------------------------
(* Mode and direction *)

\* C34: whenever the mode is AUTO the direction is IN or OUT (the direction
\* is STOPPED only in MANUAL), and every step that sets the direction to
\* STOPPED ends in MANUAL.
C34_AutoHasDirection ==
    /\ [](currentMode = MODE_AUTO_LOOP => cycleDirection \in {CYCLE_IN, CYCLE_OUT})
    /\ [][(cycleDirection # CYCLE_STOPPED /\ cycleDirection' = CYCLE_STOPPED)
             => currentMode' = MODE_MANUAL]_vars

\* The AUTO handler has shut down on both end stops triggered: direction
\* STOPPED, mode MANUAL.
C34_Witness ==
    /\ ran = "auto"
    /\ BothEndStops
    /\ cycleDirection = CYCLE_STOPPED
    /\ currentMode = MODE_MANUAL
    /\ inputC.currentState = LOW

---------------------------------------------------------------------------
(* Hard motion limit *)

\* C35: after every call of loop() that runs a mode handler, in MANUAL and in
\* AUTO, the extend output GPO2 is on only if the call read end stop OUT not
\* triggered, and the retract output GPO1 is on only if it read end stop IN
\* not triggered.
C35_HardLimit ==
    ran \in {"manual", "auto"} =>
        /\ gpo2 = HIGH => lastEndStopOut = LOW
        /\ gpo1 = HIGH => lastEndStopIn = LOW

\* AUTO was extending and has read end stop OUT triggered: the call has
\* reversed and ends with the extend output off.
C35_Witness ==
    /\ ran = "auto"
    /\ currentMode = MODE_AUTO_LOOP
    /\ cycleDirection = CYCLE_IN
    /\ lastEndStopOut = HIGH
    /\ lastCycleAge = 0
    /\ stats.cycleCount = 1
    /\ gpo2 = LOW

---------------------------------------------------------------------------
(* Manual input held *)

\* C36: the press flags of manual-extend and manual-retract stay set for as
\* long as the debounced level of the button is pressed, and a call of loop()
\* that raises the start-auto press edge while the debounced level of either
\* manual-direction channel is pressed ends in MANUAL: it runs the manual
\* handler after the AUTO exit has switched both outputs off, and the outputs
\* are those the manual rules give.
C36_ManualHeldBlocksAuto ==
    /\ [](/\ inputA.pressed <=> inputA.currentState = LOW
          /\ inputB.pressed <=> inputB.currentState = LOW)
    /\ [][(/\ TickStep
           /\ ran' # "estop"
           /\ inputC.currentState = HIGH
           /\ inputC'.currentState = LOW
           /\ (inputA'.currentState = LOW \/ inputB'.currentState = LOW))
             => /\ currentMode' = MODE_MANUAL
                /\ ran' = "manual"
                /\ Len(writes') = 4
                /\ SubSeq(writes', 1, 2) = <<<<"GPO1_PIN", LOW>>, <<"GPO2_PIN", LOW>>>>
                /\ ManualDrive'
                /\ cycleDirection' # CYCLE_STOPPED]_vars

\* A call of loop() has left AUTO and run the manual handler while
\* manual-extend, debounced pressed since an earlier call, read released for
\* the first time: the call itself entered AUTO on the start-auto press edge.
C36_Witness ==
    /\ ran = "manual"
    /\ Len(writes) = 4
    /\ inputA.currentState = LOW
    /\ inputA.lastState = HIGH
    /\ inputC.currentState = LOW
    /\ inputD.currentState = HIGH
    /\ inputB.currentState = HIGH

---------------------------------------------------------------------------
(* Timeout and reversal in the same call *)

\* The call of loop() reads the end stop of the direction it starts with
\* triggered, and the other one clear.
AtEndStop ==
    \/ cycleDirection = CYCLE_IN /\ lastEndStopIn' = HIGH /\ lastEndStopOut' = LOW
    \/ cycleDirection = CYCLE_OUT /\ lastEndStopOut' = HIGH /\ lastEndStopIn' = LOW

\* C37: a call of loop() that runs the AUTO handler with the timeout enabled
\* and exceeded, and reads the end stop of the current direction triggered,
\* shuts down on the timeout: it ends in MANUAL with direction STOPPED and
\* both outputs off, does not reverse and leaves the statistics as they
\* were.
C37_TimeoutBeforeReversal ==
    [][(TickStep /\ ran' = "auto" /\ currentMode = MODE_AUTO_LOOP /\ timeoutEnabled
        /\ AtEndStop) =>
          \A dt \in Steps :
              (TimeoutOn(dt) /\ TickOf(dt)) =>
                  /\ errorLine' = "ERROR: Cycle timeout!"
                  /\ currentMode' = MODE_MANUAL
                  /\ cycleDirection' = CYCLE_STOPPED
                  /\ OutputsOff'
                  /\ stats' = stats]_vars

\* The AUTO handler has shut down on the timeout in a call that read end
\* stop OUT triggered.
C37_Witness ==
    /\ errorLine = "ERROR: Cycle timeout!"
    /\ ran = "auto"
    /\ lastEndStopOut = HIGH
    /\ lastEndStopIn = LOW
    /\ cycleDirection = CYCLE_STOPPED
    /\ OutputsOff
    /\ stats.cycleCount = 0

---------------------------------------------------------------------------
(* Range of the cycle timeout *)

\* C38: with a timeout within the configurable range in the flash at boot,
\* the cycle timeout in use and the one in the flash are within
\* MIN_CYCLE_TIMEOUT .. MAX_CYCLE_TIMEOUT after any sequence of accepted and
\* rejected /save requests and restarts.
C38_TimeoutInRange ==
    /\ cycleTimeout >= MIN_CYCLE_TIMEOUT
    /\ cycleTimeout <= MAX_CYCLE_TIMEOUT
    /\ flash.cycleTimeout >= MIN_CYCLE_TIMEOUT
    /\ flash.cycleTimeout <= MAX_CYCLE_TIMEOUT

\* The largest timeout is in use and a request for one millisecond more has
\* been rejected.
C38_Witness ==
    /\ cycleTimeout = MAX_CYCLE_TIMEOUT
    /\ flash.cycleTimeout = MAX_CYCLE_TIMEOUT
    /\ http.status = 400
    /\ http.hasTimeout
    /\ http.timeout = <<"3", "0", "0", "0", "0", "1">>

---------------------------------------------------------------------------
(* Status snapshots built outside loop() *)

\* C39 as claimed: no finished status snapshot reports both outputs on, the
\* snapshots built by the GET /status handler and the WebSocket connect
\* handler while loop() is running included.
C39_SnapshotConsistent ==
    snapshot.at = "done" => ~(snapshot.gpo1 = HIGH /\ snapshot.gpo2 = HIGH)

---------------------------------------------------------------------------
(* Switching the timeout protection *)

\* C40: every accepted /save request sets timeoutEnabled, in use and in the
\* flash, to the presence of its timeoutEnabled argument, so that a request
\* with a valid timeout and no timeoutEnabled argument switches the timeout
\* protection off; and while timeoutEnabled is false no call of loop() shuts
\* down on the timeout: a call that runs the AUTO handler out of AUTO without
\* both end stops triggered ends in AUTO, however long the cycle has lasted.
C40_EnabledByPresence ==
    /\ [][(SaveTimeout /\ http'.status = 200) =>
             /\ timeoutEnabled' = http'.hasEnabled
             /\ flash'.timeoutEnabled = http'.hasEnabled]_vars
    /\ [][(~timeoutEnabled /\ StrokeTick) =>
             /\ errorLine' # "ERROR: Cycle timeout!"
             /\ (ran' = "auto" /\ currentMode = MODE_AUTO_LOOP /\ ~BothEndStops')
                    => currentMode' = MODE_AUTO_LOOP]_vars

\* The latest request, with a valid timeout and no timeoutEnabled argument,
\* was accepted; the timeout is off, and AUTO is driving an output although
\* the cycle has lasted longer than cycleTimeout.
C40_Witness ==
    /\ http.status = 200
    /\ http.hasTimeout
    /\ ~http.hasEnabled
    /\ ~timeoutEnabled
    /\ ran = "auto"
    /\ currentMode = MODE_AUTO_LOOP
    /\ cycleStartAge > cycleTimeout
    /\ ~OutputsOff

=============================================================================
